---- MODULE Spec2Model ----
(***************************************************************************)
(* A model of the ape-rs decoding core: the range coder and Rice state    *)
(* (src/src/range_coder.rs), the NNFilter (src/src/nnfilter.rs), the       *)
(* predictor (src/src/predictor.rs), the sample buffer (src/src/buffer.rs),*)
(* the frame decoder (src/src/decode.rs) and the sample iterator           *)
(* (src/src/lib.rs).                                                       *)
(*                                                                         *)
(* TLC's integers are 32-bit signed and trap on overflow, so a u32 of the  *)
(* source is carried as a pair <<h, l>> of value h * 2^16 + l with         *)
(* 0 <= l < 2^16.  A u32 has h < 2^16; intermediate results may have a     *)
(* larger h (up to 2^31), which is how a carry out of 32 bits is seen.     *)
(***************************************************************************)
EXTENDS Integers, Sequences, FiniteSets, TLC

\* ------------------------------------------------------------------------
\* 32-bit unsigned arithmetic on <<h, l>> pairs
\* ------------------------------------------------------------------------

W16 == 2 ^ 16

Pow2(n) == 2 ^ n

\* The pair for a native natural n < 2^31.
U32Of(n) == << n \div W16, n % W16 >>

U32Zero == << 0, 0 >>

U32Max == << W16 - 1, W16 - 1 >>

\* Carry the low limb into the high limb.
BigNorm(h, l) == << h + (l \div W16), l % W16 >>

BigAdd(a, b) == BigNorm(a[1] + b[1], a[2] + b[2])

BigLt(a, b) == a[1] < b[1] \/ (a[1] = b[1] /\ a[2] < b[2])

BigLe(a, b) == a[1] < b[1] \/ (a[1] = b[1] /\ a[2] <= b[2])

\* a - b for a >= b.
BigSub(a, b) ==
    IF a[2] >= b[2] THEN << a[1] - b[1], a[2] - b[2] >>
    ELSE << a[1] - b[1] - 1, a[2] + W16 - b[2] >>

BigMin(a, b) == IF BigLe(a, b) THEN a ELSE b

BigMax(a, b) == IF BigLe(a, b) THEN b ELSE a

\* Does the value fit in 32 bits?
FitsU32(a) == a[1] < W16

\* The value modulo 2^32.
Wrap32(a) == << a[1] % W16, a[2] >>

\* a - b modulo 2^32, for u32 a and b.
U32WrappingSub(a, b) ==
    IF BigLe(b, a) THEN BigSub(a, b)
    ELSE BigSub(<< a[1] + W16, a[2] >>, b)

\* a >> n for a u32 a and 0 <= n < 32.
U32Shr(a, n) ==
    IF n = 0 THEN a
    ELSE IF n >= 16 THEN << 0, a[1] \div Pow2(n - 16) >>
    ELSE << a[1] \div Pow2(n),
            (a[2] \div Pow2(n)) + (a[1] % Pow2(n)) * Pow2(16 - n) >>

\* a << n modulo 2^32 for a u32 a and 0 <= n < 32.
U32Shl(a, n) ==
    IF n = 0 THEN a
    ELSE IF n >= 16 THEN << (a[2] % Pow2(32 - n)) * Pow2(n - 16), 0 >>
    ELSE << (a[1] % Pow2(16 - n)) * Pow2(n) + (a[2] \div Pow2(16 - n)),
            (a[2] % Pow2(16 - n)) * Pow2(n) >>

\* 1 << n as a pair, 0 <= n < 32.
U32Bit(n) == IF n >= 16 THEN << Pow2(n - 16), 0 >> ELSE << 0, Pow2(n) >>

\* The product of two 16-bit limbs, as a pair (it may need 32 bits).
Mul16(a, b) ==
    LET p1 == a * (b \div 256)
        p0 == a * (b % 256)
    IN  BigAdd(<< p1 \div 256, (p1 % 256) * 256 >>, << p0 \div W16, p0 % W16 >>)

\* a >> 1 as a native integer.
U32ToIntHalf(a) == a[1] * (W16 \div 2) + (a[2] \div 2)

\* q * b for a 16-bit q (q <= 2^16) and a u32 b, as a pair whose high limb may
\* exceed 16 bits.
U32MulSmall(q, b) ==
    LET hi == Mul16(q, b[1])
        lo == Mul16(q, b[2])
    IN  << hi[1] * W16 + hi[2] + lo[1], lo[2] >>

\* a / b for a u32 a and 0 < b < 2^16: long division, the low limb of a taken
\* in two bytes so that every intermediate value stays below 2^24.
U32DivShort(a, b) ==
    LET q1 == a[1] \div b
        t1 == (a[1] % b) * 256 + (a[2] \div 256)
        q2 == t1 \div b
        t2 == (t1 % b) * 256 + (a[2] % 256)
        q3 == t2 \div b
    IN  << q1, q2 * 256 + q3 >>

\* Is c * b <= a, for a candidate quotient c?
U32DivFits(c, a, b) == c >= 0 /\ BigLe(U32MulSmall(c, b), a)

\* The largest candidate c within est - 2 .. est + 1 with c * b <= a.
U32DivPick(est, a, b) ==
    IF U32DivFits(est, a, b)
    THEN IF U32DivFits(est + 1, a, b) THEN est + 1 ELSE est
    ELSE IF U32DivFits(est - 1, a, b) THEN est - 1 ELSE est - 2

\* a / b for u32 a and b with b >= 2^16.  The quotient of the halves,
\* (a >> 1) / (b >> 1), is within -1 .. +2 of a / b; the largest candidate c
\* with c * b <= a is the quotient.
U32DivLong(a, b) ==
    U32Of(U32DivPick(U32ToIntHalf(a) \div U32ToIntHalf(b), a, b))

\* a / b for u32 a and b, b > 0.
U32Div(a, b) == IF b[1] = 0 THEN U32DivShort(a, b[2]) ELSE U32DivLong(a, b)

\* The low 32 bits of a * b.
U32WrappingMul(a, b) ==
    LET ll    == Mul16(a[2], b[2])
        hl    == Mul16(a[1], b[2])
        lh    == Mul16(a[2], b[1])
        cross == (hl[2] + lh[2]) % W16
    IN  Wrap32(<< ll[1] + cross, ll[2] >>)

\* Does a * b need more than 32 bits?
U32MulOverflows(a, b) ==
    /\ a # U32Zero
    /\ b # U32Zero
    /\ BigLt(U32Div(U32Max, a), b)

\* A u32 below 2^31 as a native integer.
U32ToInt(a) == a[1] * W16 + a[2]

\* `v as i32` for a u32 v, as a native integer.
U32AsI32(a) ==
    IF a[1] < 32768 THEN a[1] * W16 + a[2]
    ELSE (a[1] - 32768) * W16 + a[2] - 1073741824 - 1073741824

\* ------------------------------------------------------------------------
\* Rice state (range_coder.rs)
\* ------------------------------------------------------------------------

\* RiceState::new: k = 10, ksum = 1 << 14.
RiceState_new == [k |-> 10, ksum |-> U32Of(2 ^ 14)]

\* The value of ksum after `self.ksum += add` in RiceState::update, with
\* x + 1 taken modulo 2^32.
RiceKsumAdded(rice, x) ==
    LET x1  == Wrap32(BigAdd(x, U32Of(1)))
        add == BigMin(U32Shr(x1, 1), BigSub(U32Max, rice.ksum))
    IN  BigAdd(rice.ksum, add)

\* The two additions of RiceState::update that are not guarded: x + 1 and
\* ksum + 16.  With overflow checks compiled in, either one panics.
RiceState_update_overflows(rice, x) ==
    \/ x = U32Max
    \/ ~FitsU32(BigAdd(RiceKsumAdded(rice, x), U32Of(16)))

\* The new ksum of RiceState::update (overflowing additions wrap).
RiceState_update_ksum(rice, x) ==
    LET k1  == RiceKsumAdded(rice, x)
        sub == U32Shr(Wrap32(BigAdd(k1, U32Of(16))), 5)
    IN  IF BigLe(sub, k1) THEN BigSub(k1, sub) ELSE U32Zero

\* A faulty k adjustment: the increment without its guard k < 24.
RiceKMutNoUpperGuard(k, ksum) ==
    IF k > 0 /\ BigLt(ksum, U32Bit(k + 4)) THEN k - 1
    ELSE IF BigLe(U32Bit(k + 5), ksum) THEN k + 1
    ELSE k

\* A faulty k adjustment: k is never lowered.
RiceKMutNeverDown(k, ksum) ==
    IF BigLe(U32Bit(k + 5), ksum) /\ k < 24 THEN k + 1 ELSE k

\* The new k of RiceState::update, given the new ksum.
RiceState_update_k(k, ksum) ==
    IF k > 0 /\ BigLt(ksum, U32Bit(k + 4)) THEN k - 1
    ELSE IF BigLe(U32Bit(k + 5), ksum) /\ k < 24 THEN k + 1
    ELSE k

\* RiceState::update(x).
RiceState_update(rice, x) ==
    LET ks == RiceState_update_ksum(rice, x)
    IN  [k |-> RiceState_update_k(rice.k, ks), ksum |-> ks]

\* RiceState::pivot: (ksum >> 5).max(1).
RiceState_pivot(rice) == BigMax(U32Shr(rice.ksum, 5), U32Of(1))

\* The zigzag mapping that ends RangeCoder::decode_value: the i32 returned
\* for the magnitude x.
ZigzagDecode(x) ==
    IF x[2] % 2 # 0
    THEN U32AsI32(BigAdd(U32Shr(x, 1), U32Of(1)))
    ELSE 0 - U32AsI32(U32Shr(x, 1))

\* ------------------------------------------------------------------------
\* Range coder (range_coder.rs)
\* ------------------------------------------------------------------------

CODE_BITS == 32

TOP_VALUE == U32Bit(CODE_BITS - 1)

BOTTOM_VALUE == U32Shr(TOP_VALUE, 8)

EXTRA_BITS == ((CODE_BITS - 2) % 8) + 1

MODEL_ELEMENTS == 22

COUNTS_3980 ==
    << 0, 19578, 36160, 48417, 56323, 60899, 63265, 64435, 64971, 65232,
       65351, 65416, 65447, 65466, 65476, 65482, 65485, 65488, 65490, 65491,
       65492, 65493 >>

COUNTS_DIFF_3980 ==
    << 19578, 16582, 12257, 7906, 4576, 2366, 1170, 536, 261, 119, 65, 31,
       19, 10, 6, 3, 3, 2, 1, 1, 1 >>

\* A range coder is [data, pos, low, range, help, st]: data the byte slice,
\* pos the number of bytes consumed, st "ok", or "panic" after a division by
\* zero or a checked overflow, or "hang" when normalize cannot end.

\* RangeCoder::read_byte: the byte read (0 past the end).
RC_peek(rc) == IF rc.pos < Len(rc.data) THEN rc.data[rc.pos + 1] ELSE 0

\* RangeCoder::read_byte: the cursor after the read.
RC_advance(rc) == IF rc.pos < Len(rc.data) THEN rc.pos + 1 ELSE rc.pos

\* RangeCoder::normalize.
RECURSIVE RangeCoder_normalize(_)
RangeCoder_normalize(rc) ==
    IF rc.st # "ok" THEN rc
    ELSE IF rc.range = U32Zero THEN [rc EXCEPT !.st = "hang"]
    ELSE IF BigLe(rc.range, BOTTOM_VALUE)
    THEN RangeCoder_normalize(
            [rc EXCEPT !.low = BigAdd(U32Shl(rc.low, 8), U32Of(RC_peek(rc))),
                       !.range = U32Shl(rc.range, 8),
                       !.pos = RC_advance(rc)])
    ELSE rc

\* RangeCoder::new(data).
RangeCoder_new(data) ==
    LET rc0 == [data |-> data, pos |-> 0, low |-> U32Zero,
                range |-> U32Bit(EXTRA_BITS), help |-> U32Zero, st |-> "ok"]
        first == RC_peek(rc0)
    IN  RangeCoder_normalize(
            [rc0 EXCEPT !.pos = RC_advance(rc0),
                        !.low = U32Of(first \div (2 ^ (8 - EXTRA_BITS)))])

\* RC_take once v = min(low / help, maxv) is known: low -= help * v;
\* range = help; normalize.
RC_take_value(rc, help, v) ==
    [rc |-> RangeCoder_normalize(
                [rc EXCEPT !.help = help,
                           !.low = BigSub(rc.low, U32WrappingMul(help, v)),
                           !.range = help]),
     v |-> v]

\* The step shared by decode_value's base reads: with help already chosen,
\* v = min(low / help, maxv); low -= help * v; range = help; normalize.
\* Returns [rc, v].  help = 0 is a division by zero.
RC_take(rc, help, maxv) ==
    IF rc.st # "ok" THEN [rc |-> rc, v |-> U32Zero]
    ELSE IF help = U32Zero
    THEN [rc |-> [rc EXCEPT !.help = help, !.st = "panic"], v |-> U32Zero]
    ELSE RC_take_value(rc, help, BigMin(U32Div(rc.low, help), maxv))

\* decode_culshift once help = range >> shift is known.
RangeCoder_decode_culshift_help(rc, shift, help) ==
    IF help = U32Zero
    THEN [rc |-> [rc EXCEPT !.help = help, !.st = "panic"], v |-> U32Zero]
    ELSE [rc |-> [rc EXCEPT !.help = help],
          v |-> BigMin(U32Div(rc.low, help),
                       BigSub(U32Bit(shift), U32Of(1)))]

\* RangeCoder::decode_culshift(shift): [rc, v].
RangeCoder_decode_culshift(rc, shift) ==
    IF rc.st # "ok" THEN [rc |-> rc, v |-> U32Zero]
    ELSE RangeCoder_decode_culshift_help(rc, shift, U32Shr(rc.range, shift))

\* decode_update once prod = help * lt_f (wrapped) is known.
RangeCoder_decode_update_prod(rc, lt_f, sy_f, oc, prod) ==
    IF /\ oc
       /\ \/ U32MulOverflows(rc.help, lt_f)
          \/ BigLt(rc.low, prod)
          \/ U32MulOverflows(rc.help, sy_f)
    THEN [rc EXCEPT !.st = "panic"]
    ELSE RangeCoder_normalize(
            [rc EXCEPT !.low = U32WrappingSub(rc.low, prod),
                       !.range = U32WrappingMul(rc.help, sy_f)])

\* RangeCoder::decode_update(lt_f, sy_f), under overflow checks oc.
RangeCoder_decode_update(rc, lt_f, sy_f, oc) ==
    IF rc.st # "ok" THEN rc
    ELSE RangeCoder_decode_update_prod(rc, lt_f, sy_f, oc,
                                       U32WrappingMul(rc.help, lt_f))

\* The binary search of get_symbol with < for <= in its comparison.
RECURSIVE SymbolSearchMutStrict(_, _, _)
SymbolSearchMutStrict(cf, lo, hi) ==
    IF lo < hi
    THEN LET mid == (lo + hi + 1) \div 2
         IN  IF COUNTS_3980[mid + 1] < cf
             THEN SymbolSearchMutStrict(cf, mid, hi)
             ELSE SymbolSearchMutStrict(cf, lo, mid - 1)
    ELSE lo

\* The binary search of get_symbol: the largest index lo (0-based) with
\* COUNTS_3980[lo] <= cf.
RECURSIVE SymbolSearch(_, _, _)
SymbolSearch(cf, lo, hi) ==
    IF lo < hi
    THEN LET mid == (lo + hi + 1) \div 2
         IN  IF COUNTS_3980[mid + 1] <= cf
             THEN SymbolSearch(cf, mid, hi)
             ELSE SymbolSearch(cf, lo, mid - 1)
    ELSE lo

\* The sentinel u32::MAX that get_symbol returns for the last bucket.
SYM_OVERFLOW == U32Max

\* get_symbol after its decode_culshift(16) returned c: cf > 65492 is the
\* last bucket, which returns the sentinel; otherwise the symbol found by the
\* search.
RangeCoder_get_symbol_culled(c, oc) ==
    LET cf == U32ToInt(c.v)
        lo == IF cf > 65492 THEN MODEL_ELEMENTS - 1
              ELSE SymbolSearch(cf, 0, MODEL_ELEMENTS - 1)
    IN  IF c.rc.st # "ok" THEN [rc |-> c.rc, v |-> U32Zero]
        ELSE [rc |-> RangeCoder_decode_update(
                        c.rc,
                        U32Of(COUNTS_3980[lo + 1]),
                        U32Of(IF cf > 65492
                              THEN 65536 - COUNTS_3980[MODEL_ELEMENTS]
                              ELSE COUNTS_DIFF_3980[lo + 1]),
                        oc),
              v |-> IF cf > 65492 THEN SYM_OVERFLOW ELSE U32Of(lo)]

\* RangeCoder::get_symbol: [rc, v].
RangeCoder_get_symbol(rc, oc) ==
    RangeCoder_get_symbol_culled(RangeCoder_decode_culshift(rc, 16), oc)

\* The double escape of get_overflow after decode_culshift(bits) returned w.
RangeCoder_get_overflow_value(w, oc) ==
    [rc |-> RangeCoder_decode_update(w.rc, w.v, U32Of(1), oc),
     v |-> BigAdd(w.v, U32Of(MODEL_ELEMENTS - 1))]

\* The double escape of get_overflow after decode_culshift(5) returned b.
RangeCoder_get_overflow_count(b, oc) ==
    RangeCoder_get_overflow_value(
        RangeCoder_decode_culshift(
            RangeCoder_decode_update(b.rc, b.v, U32Of(1), oc),
            U32ToInt(b.v)),
        oc)

\* The double escape of get_overflow (lines 241..245), from the coder rc left
\* by the second get_symbol: [rc, v].
RangeCoder_get_overflow_bits(rc, oc) ==
    RangeCoder_get_overflow_count(RangeCoder_decode_culshift(rc, 5), oc)

\* RangeCoder::get_overflow: [rc, v].  The symbol is read once, and once more
\* after an escape; s is what get_symbol returned.
RECURSIVE RangeCoder_get_overflow_symbol(_, _, _)
RangeCoder_get_overflow_symbol(s, oc, escaped) ==
    IF s.rc.st # "ok" THEN s
    ELSE IF ~escaped
    THEN IF s.v # SYM_OVERFLOW THEN s
         ELSE RangeCoder_get_overflow_symbol(
                  RangeCoder_get_symbol(s.rc, oc), oc, TRUE)
    ELSE IF s.v # SYM_OVERFLOW
    THEN [rc |-> s.rc, v |-> BigAdd(s.v, U32Of(MODEL_ELEMENTS - 1))]
    ELSE RangeCoder_get_overflow_bits(s.rc, oc)

\* RangeCoder::get_overflow: [rc, v].
RangeCoder_get_overflow(rc, oc) ==
    RangeCoder_get_overflow_symbol(RangeCoder_get_symbol(rc, oc), oc, FALSE)

\* 32 - pivot.leading_zeros(): the bit length of a u32 p > 0.
RECURSIVE BitLength(_)
BitLength(p) == IF p = U32Zero THEN 0 ELSE 1 + BitLength(U32Shr(p, 1))

\* The large-pivot base once its high part hi and low part lo are read.
RangeCoder_decode_base_low(hi, lo, shift) ==
    [rc |-> lo.rc, v |-> BigAdd(U32Shl(hi.v, shift), lo.v)]

\* The large-pivot base once its high part hi is read.
RangeCoder_decode_base_high(hi, shift) ==
    RangeCoder_decode_base_low(
        hi,
        RC_take(hi.rc, U32Shr(hi.rc.range, shift),
                BigSub(U32Bit(shift), U32Of(1))),
        shift)

\* The large-pivot base of decode_value (lines 200..217), read in two parts
\* from the coder rc: [rc, v].
RangeCoder_decode_base_split(rc, shift) ==
    RangeCoder_decode_base_high(
        RC_take(rc, U32Shr(rc.range, 16), U32Of(65535)), shift)

\* decode_value's parts once the overflow o and the base b are read.
RangeCoder_decode_parts_of(b, o) ==
    [rc |-> b.rc, base |-> b.v, overflow |-> o.v]

\* decode_value's parts after get_overflow returned o: a small pivot has its
\* base b already, a large one reads it now from the coder o left.
RangeCoder_decode_parts_overflow(b, o, pivot) ==
    IF BigLt(pivot, U32Of(65536))
    THEN [rc |-> o.rc, base |-> b.v, overflow |-> o.v]
    ELSE RangeCoder_decode_parts_of(
             RangeCoder_decode_base_split(o.rc, BitLength(pivot) - 16), o)

\* decode_value's parts after the small-pivot base read returned b (for a
\* large pivot b is the untouched coder).
RangeCoder_decode_parts_base(b, pivot, oc) ==
    RangeCoder_decode_parts_overflow(b, RangeCoder_get_overflow(b.rc, oc),
                                     pivot)

\* The base and overflow of decode_value (lines 179..218): [rc, base, overflow].
\* A small pivot reads the base, then the overflow; a large one the overflow,
\* then the base.
RangeCoder_decode_parts(rc, pivot, oc) ==
    RangeCoder_decode_parts_base(
        IF BigLt(pivot, U32Of(65536))
        THEN RC_take(rc, IF rc.st = "ok" THEN U32Div(rc.range, pivot)
                         ELSE U32Zero,
                     BigSub(pivot, U32Of(1)))
        ELSE [rc |-> rc, v |-> U32Zero],
        pivot, oc)

\* decode_value from line 220 on, once its base and overflow are read.
RangeCoder_decode_value_parts(parts, rice, pivot, oc) ==
    LET sum == BigAdd(parts.base, U32WrappingMul(parts.overflow, pivot))
        x   == Wrap32(sum)
    IN  IF parts.rc.st # "ok"
        THEN [rc |-> parts.rc, rice |-> rice, x |-> U32Zero, value |-> 0]
        ELSE IF /\ oc
                /\ \/ U32MulOverflows(parts.overflow, pivot)
                   \/ ~FitsU32(sum)
                   \/ RiceState_update_overflows(rice, x)
        THEN [rc |-> [parts.rc EXCEPT !.st = "panic"], rice |-> rice,
              x |-> x, value |-> 0]
        ELSE [rc |-> parts.rc, rice |-> RiceState_update(rice, x),
              x |-> x, value |-> ZigzagDecode(x)]

\* RangeCoder::decode_value(rice) under overflow checks oc:
\* [rc, rice, x, value], x the magnitude and value the i32 returned.
RangeCoder_decode_value(rc, rice, oc) ==
    RangeCoder_decode_value_parts(
        RangeCoder_decode_parts(rc, RiceState_pivot(rice), oc),
        rice, RiceState_pivot(rice), oc)

\* ------------------------------------------------------------------------
\* Signed helpers.  The i16, i32 and i64 values of the NNFilter and the
\* predictor are native integers.  TLC stops with an error on any result
\* outside 32 bits, so in a run that completes every wrapping_add, wrapping_sub
\* and wrapping_mul on i32 or i64 was exact and every `as i32` of an i64 kept
\* its value.
\* ------------------------------------------------------------------------

\* The sequence << F(lo), ..., F(hi) >>, built by halves so that a long
\* buffer needs only a shallow recursion.
RECURSIVE SeqRange(_, _, _)
SeqRange(F(_), lo, hi) ==
    IF lo > hi THEN << >>
    ELSE IF lo = hi THEN << F(lo) >>
    ELSE LET mid == (lo + hi) \div 2
         IN  SeqRange(F, lo, mid) \o SeqRange(F, mid + 1, hi)

\* The sequence << F(1), ..., F(n) >>.
SeqOf(F(_), n) == SeqRange(F, 1, n)

\* n zeros: vec![0; n].
Zeros(n) == SeqOf(LAMBDA i : 0, n)

\* F(lo) + ... + F(hi), by halves.
RECURSIVE SumRange(_, _, _)
SumRange(F(_), lo, hi) ==
    IF lo > hi THEN 0
    ELSE IF lo = hi THEN F(lo)
    ELSE LET mid == (lo + hi) \div 2
         IN  SumRange(F, lo, mid) + SumRange(F, mid + 1, hi)

\* Element i (0-based) of a buffer.
At(buf, i) == buf[i + 1]

\* The buffer with element i (0-based) set to v.
Put(buf, i, v) == [buf EXCEPT ![i + 1] = v]

\* `v as i16`: the low 16 bits, signed.
AsI16(v) == ((v + 32768) % 65536) - 32768

\* v.clamp(i16::MIN, i16::MAX).
ClampI16(v) == IF v < -32768 THEN -32768 ELSE IF v > 32767 THEN 32767 ELSE v

Abs(v) == IF v < 0 THEN 0 - v ELSE v

\* Rust's a / b on signed integers, b > 0: rounds toward zero.
TruncDiv(a, b) == IF a >= 0 THEN a \div b ELSE 0 - ((0 - a) \div b)

\* apesign of nnfilter.rs and predictor.rs: -1 for positive, +1 for negative.
apesign(x) == (IF x < 0 THEN 1 ELSE 0) - (IF x > 0 THEN 1 ELSE 0)

\* ------------------------------------------------------------------------
\* NNFilter (nnfilter.rs)
\* ------------------------------------------------------------------------

MAX_STAGES == 3

FILTER_ORDERS ==
    << << 0, 0, 0 >>, << 16, 0, 0 >>, << 64, 0, 0 >>, << 32, 256, 0 >>,
       << 16, 256, 1280 >> >>

FILTER_FRACBITS ==
    << << 0, 0, 0 >>, << 11, 0, 0 >>, << 11, 0, 0 >>, << 10, 13, 0 >>,
       << 11, 13, 15 >> >>

HISTORY_SIZE == 512

\* NNFilterStage::new(order, fracbits).
NNFilterStage_new(order, fracbits) ==
    [order |-> order,
     fracbits |-> fracbits,
     coeffs |-> Zeros(order),
     historybuffer |-> Zeros(order * 2 + HISTORY_SIZE),
     delay_pos |-> order * 2,
     adapt_pos |-> order,
     avg |-> 0]

\* A faulty reset: avg is left as it is.
NNFilterStageMutResetKeepsAvg(st) ==
    [st EXCEPT !.coeffs = Zeros(Len(st.coeffs)),
               !.historybuffer = Zeros(Len(st.historybuffer)),
               !.delay_pos = st.order * 2,
               !.adapt_pos = st.order]

\* NNFilterStage::reset.
NNFilterStage_reset(st) ==
    [st EXCEPT !.coeffs = Zeros(Len(st.coeffs)),
               !.historybuffer = Zeros(Len(st.historybuffer)),
               !.delay_pos = st.order * 2,
               !.adapt_pos = st.order,
               !.avg = 0]

\* sum(coeffs[i] * historybuffer[dp - order + i]) for i in 0..n-1, an i64 in
\* the source, here in two parts that each fit 32 bits: the sum is
\* DotProductHigh * 2^fracbits + DotProductLow, every product being split
\* into its quotient and its remainder (0 .. 2^fracbits - 1) by 2^fracbits.
DotProductHigh(coeffs, hb, base, n, fracbits) ==
    SumRange(LAMBDA i : (coeffs[i] * At(hb, base + i - 1)) \div (2 ^ fracbits),
             1, n)

DotProductLow(coeffs, hb, base, n, fracbits) ==
    SumRange(LAMBDA i : (coeffs[i] * At(hb, base + i - 1)) % (2 ^ fracbits),
             1, n)

\* The three decays of decompress: historybuffer[ap - d] >>= 1 when ap >= d.
Decay(hb, ap, d) ==
    IF ap >= d THEN Put(hb, ap - d, At(hb, ap - d) \div 2) ELSE hb

\* A wrap that moves only order entries to the front, not order * 2.
WrapHistoryMutHalf(hb, order, tail_start) ==
    SeqOf(LAMBDA i : IF i <= order THEN hb[tail_start + i] ELSE hb[i],
          Len(hb))

\* The wrap of decompress: the last order * 2 entries move to the front.
WrapHistory(hb, order, tail_start) ==
    SeqOf(LAMBDA i : IF i <= order * 2 THEN hb[tail_start + i] ELSE hb[i],
          Len(hb))

\* NNFilterStage::decompress(input) for order > 0, up to the pointer advance
\* (lines 94..150): [st, out], the wrap not yet made.  (sum + rounding) >>
\* fracbits is the high part of the sum plus the shifted low part.
NNFilterStage_step(st, input) ==
    LET order  == st.order
        dp     == st.delay_pos
        ap     == st.adapt_pos
        hb     == st.historybuffer
        sign   == apesign(input)
        coeffs == SeqOf(LAMBDA i :
                          AsI16(st.coeffs[i]
                                + AsI16(At(hb, ap - order + i - 1) * sign)),
                        order)
        rounding == 2 ^ (st.fracbits - 1)
        filtered == DotProductHigh(st.coeffs, hb, dp - order, order,
                                   st.fracbits)
                    + ((DotProductLow(st.coeffs, hb, dp - order, order,
                                      st.fracbits) + rounding)
                       \div (2 ^ st.fracbits))
        res    == filtered + input
        hb1    == Put(hb, dp, ClampI16(res))
        absres == Abs(res)
        shift  == (IF absres > st.avg * 3 THEN 1 ELSE 0)
                  + (IF absres > st.avg + (st.avg \div 3) THEN 1 ELSE 0)
        adapt_val == IF absres # 0 THEN apesign(res) * (8 * (2 ^ shift)) ELSE 0
        hb2    == Put(hb1, ap, AsI16(adapt_val))
        avg    == st.avg + TruncDiv(absres - st.avg, 16)
        hb3    == Decay(Decay(Decay(hb2, ap, 1), ap, 2), ap, 8)
    IN  [st |-> [st EXCEPT
                   !.coeffs = coeffs,
                   !.historybuffer = hb3,
                   !.delay_pos = dp + 1,
                   !.adapt_pos = ap + 1,
                   !.avg = IF avg > 0 THEN avg ELSE 0],
         out |-> res]

\* The end of decompress (lines 152..163): the wrap, when delay_pos has
\* reached order * 2 + HISTORY_SIZE, of what the step r = [st, out] left.
NNFilterStage_wrapped(r) ==
    IF r.st.delay_pos >= r.st.order * 2 + HISTORY_SIZE
    THEN [r EXCEPT
            !.st.historybuffer =
                WrapHistory(r.st.historybuffer, r.st.order,
                            r.st.delay_pos - r.st.order * 2),
            !.st.delay_pos = r.st.order * 2,
            !.st.adapt_pos = r.st.order]
    ELSE r

\* NNFilterStage::decompress(input): [st, out].
NNFilterStage_decompress(st, input) ==
    IF st.order = 0 THEN [st |-> st, out |-> input]
    ELSE NNFilterStage_wrapped(NNFilterStage_step(st, input))

\* NNFilter::new(fset): the stages with a non-zero order, in table order.
RECURSIVE NNFilterStages(_, _)
NNFilterStages(fset, s) ==
    IF s > MAX_STAGES THEN << >>
    ELSE IF FILTER_ORDERS[fset + 1][s] > 0
    THEN << NNFilterStage_new(FILTER_ORDERS[fset + 1][s],
                              FILTER_FRACBITS[fset + 1][s]) >>
         \o NNFilterStages(fset, s + 1)
    ELSE NNFilterStages(fset, s + 1)

NNFilter_new(fset) == NNFilterStages(fset, 1)

\* NNFilter::reset.
NNFilter_reset(f) == SeqOf(LAMBDA s : NNFilterStage_reset(f[s]), Len(f))

\* NNFilter::decompress(value): [f, out], the stages applied in order.
RECURSIVE NNFilterCascade(_, _, _)
NNFilterCascade(f, s, value) ==
    IF s > Len(f) THEN [f |-> f, out |-> value]
    ELSE LET r == NNFilterStage_decompress(f[s], value)
         IN  NNFilterCascade([f EXCEPT ![s] = r.st], s + 1, r.out)

NNFilter_decompress(f, value) == NNFilterCascade(f, 1, value)

\* ------------------------------------------------------------------------
\* Predictor (predictor.rs)
\* ------------------------------------------------------------------------

PREDICTOR_SIZE == 50

YDELAYA == 18 + 8 * 4
YDELAYB == 18 + 8 * 3
XDELAYA == 18 + 8 * 2
XDELAYB == 18 + 8

YADAPTCOEFFSA == 18
XADAPTCOEFFSA == 14
YADAPTCOEFFSB == 10
XADAPTCOEFFSB == 5

INITIAL_COEFFS_A == << 360, 317, -109, 98 >>

\* Predictor::new.
Predictor_new ==
    [buf |-> Zeros(HISTORY_SIZE + PREDICTOR_SIZE),
     buf_pos |-> 0,
     last_a |-> << 0, 0 >>,
     filter_a |-> << 0, 0 >>,
     filter_b |-> << 0, 0 >>,
     coeffs_a |-> << INITIAL_COEFFS_A, INITIAL_COEFFS_A >>,
     coeffs_b |-> << << 0, 0, 0, 0, 0 >>, << 0, 0, 0, 0, 0 >> >>]

\* A faulty reset: the adaptive coefficients are left as they are.
PredictorMutResetKeepsCoeffs(p) ==
    [p EXCEPT !.buf = Zeros(Len(p.buf)),
              !.buf_pos = 0,
              !.last_a = << 0, 0 >>,
              !.filter_a = << 0, 0 >>,
              !.filter_b = << 0, 0 >>]

\* Predictor::reset.
Predictor_reset(p) ==
    [p EXCEPT !.buf = Zeros(Len(p.buf)),
              !.buf_pos = 0,
              !.last_a = << 0, 0 >>,
              !.filter_a = << 0, 0 >>,
              !.filter_b = << 0, 0 >>,
              !.coeffs_a = << INITIAL_COEFFS_A, INITIAL_COEFFS_A >>,
              !.coeffs_b = << << 0, 0, 0, 0, 0 >>, << 0, 0, 0, 0, 0 >> >>]

\* sum(buf[top - j] * coeffs[j]) for j in 0..n-1.
Taps(buf, top, coeffs, n) ==
    SumRange(LAMBDA j : At(buf, top - (j - 1)) * coeffs[j], 1, n)

\* coeffs[j] += buf[top - j] * sign for j in 0..n-1.
Adapt(coeffs, buf, top, sign) ==
    SeqOf(LAMBDA j : coeffs[j] + At(buf, top - (j - 1)) * sign, Len(coeffs))

\* A buffer advance that wraps one call late: at buf_pos > HISTORY_SIZE.
PredictorAdvanceMutLateWrap(buf, buf_pos) ==
    IF buf_pos + 1 > HISTORY_SIZE
    THEN [buf |-> SeqOf(LAMBDA i : IF i <= PREDICTOR_SIZE
                                   THEN buf[buf_pos + 1 + i] ELSE 0,
                        Len(buf)),
          buf_pos |-> 0]
    ELSE [buf |-> buf, buf_pos |-> buf_pos + 1]

\* A buffer advance whose wrap copies from one entry too early.
PredictorAdvanceMutShifted(buf, buf_pos) ==
    IF buf_pos + 1 >= HISTORY_SIZE
    THEN [buf |-> SeqOf(LAMBDA i : IF i <= PREDICTOR_SIZE
                                   THEN buf[buf_pos + i] ELSE 0,
                        Len(buf)),
          buf_pos |-> 0]
    ELSE [buf |-> buf, buf_pos |-> buf_pos + 1]

\* The buffer advance that ends decode_mono and decode_stereo: buf_pos += 1,
\* and at HISTORY_SIZE the last PREDICTOR_SIZE entries move to the front, the
\* rest is zeroed and buf_pos = 0.  Returns [buf, buf_pos].
PredictorAdvance(buf, buf_pos) ==
    IF buf_pos + 1 >= HISTORY_SIZE
    THEN [buf |-> SeqOf(LAMBDA i : IF i <= PREDICTOR_SIZE
                                   THEN buf[buf_pos + 1 + i] ELSE 0,
                        Len(buf)),
          buf_pos |-> 0]
    ELSE [buf |-> buf, buf_pos |-> buf_pos + 1]

\* The buffer advance applied to a predictor.
Predictor_advanced(p) ==
    [p EXCEPT !.buf = PredictorAdvance(p.buf, p.buf_pos).buf,
              !.buf_pos = PredictorAdvance(p.buf, p.buf_pos).buf_pos]

\* Predictor::decode_mono(input) without its buffer advance (lines 72..107
\* and 126..129; the advance of lines 110..123 touches buf and buf_pos only,
\* which the lines after it do not read): [p, out].
Predictor_mono_step(p, input) ==
    LET a   == input
        bp  == p.buf_pos
        b1  == Put(p.buf, bp + YDELAYA, p.last_a[1])
        b2  == Put(b1, bp + YDELAYA - 1,
                   At(b1, bp + YDELAYA) - At(b1, bp + YDELAYA - 1))
        prediction_a == Taps(b2, bp + YDELAYA, p.coeffs_a[1], 4)
        current_a == a + (prediction_a \div 1024)
        b3  == Put(b2, bp + YADAPTCOEFFSA, apesign(At(b2, bp + YDELAYA)))
        b4  == Put(b3, bp + YADAPTCOEFFSA - 1,
                   apesign(At(b3, bp + YDELAYA - 1)))
        sign == apesign(a)
        ca  == IF sign # 0
               THEN Adapt(p.coeffs_a[1], b4, bp + YADAPTCOEFFSA, sign)
               ELSE p.coeffs_a[1]
        fa  == current_a + ((p.filter_a[1] * 31) \div 32)
    IN  [p |-> [p EXCEPT !.buf = b4,
                         !.last_a[1] = current_a,
                         !.coeffs_a[1] = ca,
                         !.filter_a[1] = fa],
         out |-> fa]

\* decode_mono once its step r = [p, out] is made: the buffer advance.
Predictor_mono_advanced(r) == [r EXCEPT !.p = Predictor_advanced(r.p)]

\* Predictor::decode_mono(input): [p, out].
Predictor_decode_mono(p, input) ==
    Predictor_mono_advanced(Predictor_mono_step(p, input))

\* The four writes update_filter makes for a delay line (lines 173..178 for
\* filter A, 189..194 for filter B): buf[delay] = v, buf[adapt] its sign,
\* buf[delay - 1] the difference, buf[adapt - 1] the sign of that.
PredictorDelayWrites(buf, delay, adapt, v) ==
    LET Signed(b, dst, src) == Put(b, dst, apesign(At(b, src)))
        Delta(b) == Put(b, delay - 1, At(b, delay) - At(b, delay - 1))
    IN  Signed(Delta(Signed(Put(buf, delay, v), adapt, delay)),
               adapt - 1, delay - 1)

\* Predictor::update_filter(decoded, ch, delay_a, delay_b, adapt_a, adapt_b),
\* ch 1 or 2 for the source's 0 or 1: [p, out].
Predictor_update_filter(p, decoded, ch, delay_a, delay_b, adapt_a, adapt_b) ==
    LET bp   == p.buf_pos
        oth  == 3 - ch
        sign == apesign(decoded)
        Filtered(buf, la, fa) ==
            [p |-> [p EXCEPT
                      !.buf = buf,
                      !.last_a[ch] = la,
                      !.filter_a[ch] = fa,
                      !.filter_b[ch] = p.filter_a[oth],
                      !.coeffs_a[ch] =
                          IF sign # 0
                          THEN Adapt(p.coeffs_a[ch], buf, bp + adapt_a, sign)
                          ELSE p.coeffs_a[ch],
                      !.coeffs_b[ch] =
                          IF sign # 0
                          THEN Adapt(p.coeffs_b[ch], buf, bp + adapt_b, sign)
                          ELSE p.coeffs_b[ch]],
             out |-> fa]
        Reconstructed(buf, la) ==
            Filtered(buf, la, la + ((p.filter_a[ch] * 31) \div 32))
        PredictedB(buf, prediction_a) ==
            Reconstructed(
                buf,
                decoded
                + ((prediction_a
                    + (Taps(buf, bp + delay_b, p.coeffs_b[ch], 5) \div 2))
                   \div 1024))
        PredictedA(buf) ==
            PredictedB(
                PredictorDelayWrites(
                    buf, bp + delay_b, bp + adapt_b,
                    p.filter_a[oth] - ((p.filter_b[ch] * 31) \div 32)),
                Taps(buf, bp + delay_a, p.coeffs_a[ch], 4))
    IN  PredictedA(PredictorDelayWrites(p.buf, bp + delay_a, bp + adapt_a,
                                        p.last_a[ch]))

\* decode_stereo once both channels are filtered, y and x being what
\* update_filter returned for channel 0 and then channel 1 (lines 155..158):
\* [p, left, right], the buffer not yet advanced.
Predictor_stereo_mixed(y, x) ==
    [p |-> x.p,
     left |-> x.out - TruncDiv(y.out, 2),
     right |-> (x.out - TruncDiv(y.out, 2)) + y.out]

\* decode_stereo once channel 0 is filtered: channel 1 on the predictor that
\* left (lines 139..140).
Predictor_stereo_x(y, input_x) ==
    Predictor_stereo_mixed(
        y, Predictor_update_filter(y.p, input_x, 2, XDELAYA, XDELAYB,
                                   XADAPTCOEFFSA, XADAPTCOEFFSB))

\* A decode_stereo step that filters channel 1 before channel 0.
PredictorMutStereoXFirst(p, input_y, input_x) ==
    LET x == Predictor_update_filter(p, input_x, 2, XDELAYA, XDELAYB,
                                     XADAPTCOEFFSA, XADAPTCOEFFSB)
        y == Predictor_update_filter(x.p, input_y, 1, YDELAYA, YDELAYB,
                                     YADAPTCOEFFSA, YADAPTCOEFFSB)
    IN  Predictor_stereo_mixed(y, [p |-> y.p, out |-> x.out])

\* Predictor::decode_stereo(input_y, input_x) without its buffer advance
\* (lines 135..140 and 155..158; the advance of lines 143..152 touches buf and
\* buf_pos only, which the lines after it do not read): [p, left, right].
Predictor_stereo_step(p, input_y, input_x) ==
    Predictor_stereo_x(
        Predictor_update_filter(p, input_y, 1, YDELAYA, YDELAYB,
                                YADAPTCOEFFSA, YADAPTCOEFFSB),
        input_x)

\* decode_stereo once its step r = [p, left, right] is made: the buffer
\* advance.
Predictor_stereo_advanced(r) == [r EXCEPT !.p = Predictor_advanced(r.p)]

\* Predictor::decode_stereo(input_y, input_x): [p, left, right].
Predictor_decode_stereo(p, input_y, input_x) ==
    Predictor_stereo_advanced(Predictor_stereo_step(p, input_y, input_x))

\* ------------------------------------------------------------------------
\* Sample buffer (buffer.rs)
\* ------------------------------------------------------------------------

\* SampleBuffer::new.
SampleBuffer_new == [samples |-> << >>, pos |-> 0]

\* SampleBuffer::push(sample).
SampleBuffer_push(b, sample) == [b EXCEPT !.samples = Append(b.samples, sample)]

\* A faulty push_stereo: right before left.
SampleBufferMutPushStereoSwapped(b, left, right) ==
    [b EXCEPT !.samples = Append(Append(b.samples, right), left)]

\* SampleBuffer::push_stereo(left, right).
SampleBuffer_push_stereo(b, left, right) ==
    [b EXCEPT !.samples = Append(Append(b.samples, left), right)]

\* A faulty test: the last sample of the buffer is never handed out.
SampleBufferMutHasNext(b) == b.pos + 1 < Len(b.samples)

\* The test of SampleBuffer::next_sample: is there a sample to hand out?
SampleBuffer_has_next(b) == b.pos < Len(b.samples)

\* SampleBuffer::next_sample when it returns Some: [b, s].
SampleBuffer_next_sample(b) ==
    [b |-> [b EXCEPT !.pos = b.pos + 1], s |-> At(b.samples, b.pos)]

\* SampleBuffer::clear.
SampleBuffer_clear(b) == [samples |-> << >>, pos |-> 0]

\* SampleBuffer::remaining.
SampleBuffer_remaining(b) == Len(b.samples) - b.pos

\* ------------------------------------------------------------------------
\* Header (header.rs)
\* ------------------------------------------------------------------------

\* ApeFileHeader::total_blocks.
ApeFileHeader_total_blocks(h) ==
    IF h.total_frames = 0 THEN 0
    ELSE (h.total_frames - 1) * h.blocks_per_frame + h.final_frame_blocks

\* ApeFileHeader::total_samples.
ApeFileHeader_total_samples(h) == ApeFileHeader_total_blocks(h) * h.channels

MIN_VERSION == 3990

\* read_descriptor, of the values read: the version test.  [kind, err, value].
read_descriptor(raw) ==
    IF raw.version < MIN_VERSION
    THEN [kind |-> "err", err |-> "UnsupportedVersion", value |-> raw.version]
    ELSE [kind |-> "ok", err |-> "", value |-> 0]

\* A faulty validation: a channel count of 0 passes.
ReadHeaderMutZeroChannels(raw) ==
    IF raw.channels > 2
    THEN [kind |-> "err", err |-> "InvalidHeader", value |-> 0]
    ELSE IF raw.bits_per_sample \notin {8, 16, 24}
    THEN [kind |-> "err", err |-> "InvalidHeader", value |-> 0]
    ELSE IF raw.compression_level \notin {1000, 2000, 3000, 4000, 5000}
    THEN [kind |-> "err", err |-> "UnsupportedCompressionLevel",
          value |-> raw.compression_level]
    ELSE [kind |-> "ok", err |-> "", value |-> 0]

\* read_header, of the values read: the validation, in the order of the
\* source.  [kind, err, value].
read_header(raw) ==
    IF raw.channels = 0 \/ raw.channels > 2
    THEN [kind |-> "err", err |-> "InvalidHeader", value |-> 0]
    ELSE IF raw.bits_per_sample \notin {8, 16, 24}
    THEN [kind |-> "err", err |-> "InvalidHeader", value |-> 0]
    ELSE IF raw.compression_level \notin {1000, 2000, 3000, 4000, 5000}
    THEN [kind |-> "err", err |-> "UnsupportedCompressionLevel",
          value |-> raw.compression_level]
    ELSE [kind |-> "ok", err |-> "", value |-> 0]

\* parse_header, of the values read from a file that has the magic and all
\* its bytes: the descriptor is read before the header, and `?` returns the
\* first error.
parse_header(raw) ==
    IF read_descriptor(raw).kind # "ok" THEN read_descriptor(raw)
    ELSE read_header(raw)

\* ------------------------------------------------------------------------
\* Frame decoder (decode.rs)
\* ------------------------------------------------------------------------

\* Decoder::new(reader, header).
Decoder_new(h) ==
    LET fset == (h.compression_level \div 1000) - 1
    IN  [current_frame |-> 0,
         finished |-> FALSE,
         buffer |-> SampleBuffer_new,
         filters |-> SeqOf(LAMBDA c : NNFilter_new(fset), h.channels),
         predictor |-> Predictor_new,
         fset |-> fset]

\* A faulty byte swap: only positions 0 and 3 of each word change places.
ByteSwapMutOuterOnly(data) ==
    LET full == (Len(data) \div 4) * 4
    IN  SeqOf(LAMBDA i : IF i <= full /\ (i - 1) % 4 \in {0, 3}
                         THEN data[((i - 1) \div 4) * 4 + (4 - ((i - 1) % 4))]
                         ELSE data[i],
              Len(data))

\* The byte swap of read_frame_data: each full 4-byte group reversed, the
\* trailing size % 4 bytes kept.
ByteSwapWords(data) ==
    LET full == (Len(data) \div 4) * 4
    IN  SeqOf(LAMBDA i : IF i <= full
                         THEN data[((i - 1) \div 4) * 4 + (4 - ((i - 1) % 4))]
                         ELSE data[i],
              Len(data))

\* A faulty test: > for >=.
SeekIndexMutOffByOne(frame_idx, seek_table) == frame_idx > Len(seek_table)

\* The test that opens read_frame_data: is the frame index outside the seek
\* table?
SeekIndexOutOfRange(frame_idx, seek_table) == frame_idx >= Len(seek_table)

\* Decoder::read_frame_data for frame frame_idx of header h over the bytes
\* `file` of the reader: [kind, err, data, io, start, end], kind "ok", "err"
\* or "panic", io the number of calls made on the reader, and [start, end) the
\* byte range computed (0, 0 when none is).  Indexing the seek table
\* out of bounds panics; end < start panics in the subtraction with overflow
\* checks and otherwise in the allocation of the wrapped size.
Decoder_read_frame_data(h, file, frame_idx) ==
    LET seek_table == h.seek_table
    IN  IF SeekIndexOutOfRange(frame_idx, seek_table)
        THEN [kind |-> "err", err |-> "InvalidSeekTable", data |-> << >>,
              io |-> 0, start |-> 0, end |-> 0]
        ELSE IF frame_idx + 1 > Len(seek_table)
        THEN [kind |-> "panic", err |-> "", data |-> << >>, io |-> 0,
              start |-> 0, end |-> 0]
        ELSE
        LET entry == seek_table[frame_idx + 1]
            start == entry - (entry % 4)
            total_data == h.ape_frame_data_bytes
                          + h.ape_frame_data_bytes_high * (2 ^ 16) * (2 ^ 16)
            end   == IF frame_idx + 1 < Len(seek_table)
                     THEN seek_table[frame_idx + 2]
                     ELSE h.data_offset + total_data
            size  == end - start
        IN  IF end < start
            THEN [kind |-> "panic", err |-> "", data |-> << >>, io |-> 0,
                  start |-> start, end |-> end]
            ELSE IF size = 0
            THEN [kind |-> "err", err |-> "UnexpectedEof", data |-> << >>,
                  io |-> 0, start |-> start, end |-> end]
            ELSE IF start + size > Len(file)
            THEN [kind |-> "err", err |-> "Io", data |-> << >>, io |-> 2,
                  start |-> start, end |-> end]
            ELSE [kind |-> "ok", err |-> "",
                  data |-> ByteSwapWords(SubSeq(file, start + 1, start + size)),
                  io |-> 2, start |-> start, end |-> end]

\* A faulty skip_frame_header: the frame flags that follow a CRC with its
\* high bit set are not skipped.
SkipFrameHeaderMutKeepsFlags(entry, frame_data) ==
    LET pos1 == entry % 4
        eof  == [kind |-> "err", err |-> "UnexpectedEof", data |-> << >>]
    IN  IF pos1 + 4 >= Len(frame_data) THEN eof
        ELSE [kind |-> "ok", err |-> "",
              data |-> SubSeq(frame_data, pos1 + 6, Len(frame_data))]

\* Decoder::skip_frame_header for the seek-table entry of the current frame:
\* [kind, err, data].
Decoder_skip_frame_header(entry, frame_data) ==
    LET align_skip == entry % 4
        pos1 == align_skip
        eof  == [kind |-> "err", err |-> "UnexpectedEof", data |-> << >>]
    IN  IF pos1 + 4 > Len(frame_data) THEN eof
        ELSE
        LET crc_high_bit == At(frame_data, pos1) >= 128
            pos2 == pos1 + 4
        IN  IF crc_high_bit /\ pos2 + 4 > Len(frame_data) THEN eof
            ELSE
            LET pos3 == IF crc_high_bit THEN pos2 + 4 ELSE pos2
            IN  IF pos3 >= Len(frame_data) THEN eof
                ELSE [kind |-> "ok", err |-> "",
                      data |-> SubSeq(frame_data, pos3 + 2, Len(frame_data))]

\* The state of a frame's block loop: [rc, rice, filters, predictor, buffer,
\* blocks, st], rice one Rice state per channel, blocks the predictor's
\* outputs block by block, st the range coder's st.

\* decode_frame_mono's iteration once the predictor returned s.
Decoder_mono_predicted(ds, d, f, s) ==
    [rc |-> d.rc,
     rice |-> << d.rice >>,
     filters |-> << f.f >>,
     predictor |-> s.p,
     buffer |-> SampleBuffer_push(ds.buffer, s.out),
     blocks |-> Append(ds.blocks, << s.out >>),
     st |-> "ok"]

\* decode_frame_mono's iteration once the filter returned f.
Decoder_mono_filtered(ds, d, f) ==
    Decoder_mono_predicted(ds, d, f,
                           Predictor_decode_mono(ds.predictor, f.out))

\* decode_frame_mono's iteration once decode_value returned d.
Decoder_mono_decoded(ds, d) ==
    IF d.rc.st # "ok" THEN [ds EXCEPT !.rc = d.rc, !.st = d.rc.st]
    ELSE Decoder_mono_filtered(ds, d,
                               NNFilter_decompress(ds.filters[1], d.value))

\* One iteration of the loop of decode_frame_mono.
Decoder_mono_block(ds, oc) ==
    Decoder_mono_decoded(ds, RangeCoder_decode_value(ds.rc, ds.rice[1], oc))

\* decode_frame_stereo's iteration once the predictor returned s.
Decoder_stereo_predicted(ds, dy, fy, dx, fx, s) ==
    [rc |-> dx.rc,
     rice |-> << dy.rice, dx.rice >>,
     filters |-> << fy.f, fx.f >>,
     predictor |-> s.p,
     buffer |-> SampleBuffer_push_stereo(ds.buffer, s.left, s.right),
     blocks |-> Append(ds.blocks, << s.left, s.right >>),
     st |-> "ok"]

\* decode_frame_stereo's iteration once the X filter returned fx.
Decoder_stereo_filtered(ds, dy, fy, dx, fx) ==
    Decoder_stereo_predicted(
        ds, dy, fy, dx, fx,
        Predictor_decode_stereo(ds.predictor, fy.out, fx.out))

\* decode_frame_stereo's iteration once the Y filter returned fy and the X
\* decode_value returned dx.
Decoder_stereo_decoded_x(ds, dy, fy, dx) ==
    IF dx.rc.st # "ok"
    THEN [ds EXCEPT !.rc = dx.rc, !.st = dx.rc.st,
                    !.rice = << dy.rice, ds.rice[2] >>,
                    !.filters = << fy.f, ds.filters[2] >>]
    ELSE Decoder_stereo_filtered(
             ds, dy, fy, dx, NNFilter_decompress(ds.filters[2], dx.value))

\* decode_frame_stereo's iteration once the Y decode_value returned dy.
Decoder_stereo_decoded_y(ds, dy, oc) ==
    IF dy.rc.st # "ok" THEN [ds EXCEPT !.rc = dy.rc, !.st = dy.rc.st]
    ELSE Decoder_stereo_decoded_x(
             ds, dy,
             NNFilter_decompress(ds.filters[1], dy.value),
             RangeCoder_decode_value(dy.rc, ds.rice[2], oc))

\* One iteration of the loop of decode_frame_stereo.
Decoder_stereo_block(ds, oc) ==
    Decoder_stereo_decoded_y(
        ds, RangeCoder_decode_value(ds.rc, ds.rice[1], oc), oc)

\* The loop `for _ in 0..nblocks` of decode_frame_mono / decode_frame_stereo.
RECURSIVE Decoder_blocks(_, _, _, _)
Decoder_blocks(ds, channels, n, oc) ==
    IF n = 0 \/ ds.st # "ok" THEN ds
    ELSE Decoder_blocks(IF channels = 1 THEN Decoder_mono_block(ds, oc)
                        ELSE Decoder_stereo_block(ds, oc),
                        channels, n - 1, oc)

\* The state in which decode_frame_mono / decode_frame_stereo enters its loop:
\* the range coder and the Rice states it has just constructed over `data`,
\* with the decoder's filters, predictor and buffer as they are.
Decoder_frame_entry(dec, channels, data) ==
    [rc |-> RangeCoder_new(data),
     rice |-> SeqOf(LAMBDA c : RiceState_new, channels),
     filters |-> dec.filters,
     predictor |-> dec.predictor,
     buffer |-> dec.buffer,
     blocks |-> << >>,
     st |-> "ok"]

\* The resets of decode_next_frame (lines 94..99): every filter, the
\* predictor, and the buffer.
Decoder_reset_for_frame(dec) ==
    [dec EXCEPT !.filters = SeqOf(LAMBDA c : NNFilter_reset(dec.filters[c]),
                                  Len(dec.filters)),
                !.predictor = Predictor_reset(dec.predictor),
                !.buffer = SampleBuffer_clear(dec.buffer)]

\* The number of blocks of frame dec.current_frame (decode_next_frame, 80..84).
Decoder_nblocks(dec, h) ==
    IF dec.current_frame = h.total_frames - 1 THEN h.final_frame_blocks
    ELSE h.blocks_per_frame

\* What a call that did not reach the block loop reports of it.
NoEntry == [reached |-> FALSE]

\* What a call that did not reach read_frame_data reports of it.
NoRead == [kind |-> "none"]

\* What a call of next() that did not call decode_next_frame reports of it.
NotCalled(dec) ==
    [dec |-> dec, ret |-> "", err |-> "", io |-> 0, called |-> FALSE,
     frame |-> dec.current_frame, nblocks |-> 0,
     remaining |-> SampleBuffer_remaining(dec.buffer), cleared |-> FALSE,
     read |-> NoRead, entry |-> NoEntry, blocks |-> << >>]

\* What decode_next_frame reports when it returns before the block loop:
\* Ok(false) unless changed.
Decoder_early(dec) == [NotCalled(dec) EXCEPT !.ret = "false", !.called = TRUE]

\* decode_next_frame from line 109 on, the block loop having left ds.
Decoder_frame_looped(dec, h, rd, d1, sk, e, ds) ==
    [dec |-> IF ds.st = "ok"
             THEN [d1 EXCEPT !.filters = ds.filters,
                             !.predictor = ds.predictor,
                             !.buffer = ds.buffer,
                             !.current_frame = @ + 1]
             ELSE [d1 EXCEPT !.filters = ds.filters,
                             !.predictor = ds.predictor,
                             !.buffer = ds.buffer],
     ret |-> IF ds.st = "ok" THEN "true" ELSE ds.st,
     err |-> "", io |-> rd.io, called |-> TRUE,
     frame |-> dec.current_frame, nblocks |-> Decoder_nblocks(dec, h),
     remaining |-> SampleBuffer_remaining(dec.buffer),
     cleared |-> TRUE,
     read |-> rd,
     entry |-> [reached |-> TRUE, rc |-> e.rc,
                rice |-> e.rice, filters |-> e.filters,
                predictor |-> e.predictor,
                buffered |-> Len(e.buffer.samples),
                data |-> sk.data],
     blocks |-> ds.blocks]

\* decode_frame_mono / decode_frame_stereo from the loop on, entered in e.
Decoder_frame_entered(dec, h, oc, rd, d1, sk, e) ==
    Decoder_frame_looped(
        dec, h, rd, d1, sk, e,
        Decoder_blocks(e, h.channels, Decoder_nblocks(dec, h), oc))

\* decode_next_frame from line 102 on: the resets have left d1, and
\* skip_frame_header returned sk.
Decoder_frame_skipped(dec, h, oc, rd, d1, sk) ==
    IF sk.kind # "ok"
    THEN [Decoder_early(dec) EXCEPT
            !.dec = d1, !.ret = "err", !.err = sk.err, !.io = rd.io,
            !.nblocks = Decoder_nblocks(dec, h), !.cleared = TRUE,
            !.read = rd]
    ELSE Decoder_frame_entered(dec, h, oc, rd, d1, sk,
                               Decoder_frame_entry(d1, h.channels, sk.data))

\* decode_next_frame from line 92 on, read_frame_data having returned rd.
Decoder_frame_read(dec, h, oc, rd) ==
    IF rd.kind # "ok"
    THEN [Decoder_early(dec) EXCEPT
            !.ret = rd.kind, !.err = rd.err, !.io = rd.io,
            !.nblocks = Decoder_nblocks(dec, h), !.read = rd]
    ELSE Decoder_frame_skipped(
             dec, h, oc, rd, Decoder_reset_for_frame(dec),
             Decoder_skip_frame_header(h.seek_table[dec.current_frame + 1],
                                       rd.data))

\* A faulty decode_next_frame: the early return leaves finished as it is.
DecoderMutEarlyNotFinished(dec, h, file, oc) ==
    IF dec.current_frame >= h.total_frames \/ Decoder_nblocks(dec, h) = 0
    THEN Decoder_early(dec)
    ELSE Decoder_frame_read(
             dec, h, oc, Decoder_read_frame_data(h, file, dec.current_frame))

\* Decoder::decode_next_frame: [dec, ret, err, io, called, frame, nblocks,
\* remaining, cleared, read, entry, blocks].  ret is "true", "false", "err", or "panic" /
\* "hang" when the call does not return; io counts the calls made on the
\* reader; frame and nblocks are the frame index and block count the call
\* worked on; remaining is SampleBuffer::remaining on entry; cleared tells
\* that the resets were made; read is what read_frame_data returned; entry is
\* the block loop's entry state (NoEntry when the loop is not reached).
Decoder_decode_next_frame(dec, h, file, oc) ==
    IF dec.current_frame >= h.total_frames \/ Decoder_nblocks(dec, h) = 0
    THEN [Decoder_early(dec) EXCEPT !.dec = [dec EXCEPT !.finished = TRUE]]
    ELSE Decoder_frame_read(
             dec, h, oc, Decoder_read_frame_data(h, file, dec.current_frame))

\* ------------------------------------------------------------------------
\* Sample iterator (lib.rs)
\* ------------------------------------------------------------------------

\* Some(Ok(_)) of next(): the sample next_sample hands out from decoder d,
\* fr being what decode_next_frame reported.
ApeSamples_next_yield(d, fr) ==
    [dec |-> [d EXCEPT !.buffer = SampleBuffer_next_sample(d.buffer).b],
     item |-> "ok", value |-> SampleBuffer_next_sample(d.buffer).s,
     err |-> "", frame |-> fr]

\* The match of next() on what decode_next_frame returned, fr.
ApeSamples_next_decoded(fr) ==
    IF fr.ret = "true"
    THEN IF SampleBuffer_has_next(fr.dec.buffer)
         THEN ApeSamples_next_yield(fr.dec, fr)
         ELSE [dec |-> fr.dec, item |-> "none", value |-> 0,
               err |-> "", frame |-> fr]
    ELSE IF fr.ret = "false"
    THEN [dec |-> fr.dec, item |-> "none", value |-> 0, err |-> "",
          frame |-> fr]
    ELSE IF fr.ret = "err"
    THEN [dec |-> fr.dec, item |-> "err", value |-> 0,
          err |-> fr.err, frame |-> fr]
    ELSE [dec |-> fr.dec, item |-> fr.ret, value |-> 0, err |-> "",
          frame |-> fr]

\* ApeSamples::next: [dec, item, value, err, frame], item "ok" for
\* Some(Ok(value)), "err" for Some(Err(err)), "none" for None, and "panic" or
\* "hang" when the call does not return; frame is what decode_next_frame
\* reported.
ApeSamples_next(dec, h, file, oc) ==
    IF SampleBuffer_has_next(dec.buffer)
    THEN ApeSamples_next_yield(dec, NotCalled(dec))
    ELSE IF dec.finished
    THEN [dec |-> dec, item |-> "none", value |-> 0, err |-> "",
          frame |-> NotCalled(dec)]
    ELSE ApeSamples_next_decoded(Decoder_decode_next_frame(dec, h, file, oc))

\* ------------------------------------------------------------------------
\* Reader (lib.rs)
\* ------------------------------------------------------------------------

\* ApeReader::new, of the values read: [kind, err, value, decoder], decoder
\* << >> when none is constructed.
ApeReader_new(raw) ==
    IF parse_header(raw).kind # "ok"
    THEN [kind |-> "err", err |-> parse_header(raw).err,
          value |-> parse_header(raw).value, decoder |-> << >>]
    ELSE [kind |-> "ok", err |-> "", value |-> 0, decoder |-> Decoder_new(raw)]

\* ------------------------------------------------------------------------
\* State
\* ------------------------------------------------------------------------

VARIABLES
    overflow_checks, \* the build: are integer overflow checks compiled in?
    header,          \* the parsed ApeFileHeader
    file,            \* the bytes of the reader
    dec,             \* the Decoder
    calls,           \* calls of ApeSamples::next made so far
    result,          \* what the latest call of next() returned
    err_before,      \* a call before the latest one returned Some(Err(_))
    yielded,         \* the values of the Ok items, in order
    pushed,          \* the contents given to the buffer, frame after frame
    blocks,          \* the predictor's outputs, block by block
    lost,            \* samples that clear() removed before they were yielded
    last,            \* what the latest call of next() did in decode_next_frame
    stage,           \* an NNFilterStage driven on its own
    pred,            \* a Predictor driven on its own
    fop,             \* the latest operation on stage / pred
    fcount,          \* operations on stage / pred so far
    rice,            \* a RiceState driven on its own
    rice_st,         \* "ok", or "panic" once an update has panicked
    rice_x,          \* the latest input of RiceState::update (<< >> at start)
    rice_sw,         \* how often the input of update has changed value
    zig,             \* a pair of magnitudes and their zigzag images
    coder,           \* a RangeCoder driven on its own, with a Rice state
    ring             \* a filter stage or a predictor run beside an unbounded one

decVars  == << header, file, dec, calls, result, err_before, yielded, pushed,
               blocks, lost, last >>
filtVars == << stage, pred, fop, fcount >>
riceVars == << rice, rice_st, rice_x, rice_sw >>
vars     ==
    << overflow_checks, decVars, filtVars, riceVars, zig, coder, ring >>

\* The values of the variables a specification does not use.
IdleDec ==
    /\ header = << >> /\ file = << >> /\ dec = << >> /\ calls = 0
    /\ result = << >> /\ err_before = FALSE /\ yielded = << >>
    /\ pushed = << >> /\ blocks = << >> /\ lost = 0 /\ last = << >>
IdleFilt == stage = << >> /\ pred = << >> /\ fop = << >> /\ fcount = 0
IdleRice == rice = << >> /\ rice_st = "" /\ rice_x = << >> /\ rice_sw = 0
IdleZig  == zig = << >>
IdleCoder == coder = << >>
IdleRing == ring = << >>

\* ------------------------------------------------------------------------
\* The reader and its iterator: Spec
\* ------------------------------------------------------------------------

MaxFrames == 2
MaxBlocks == 2
MaxCalls == 10

\* Compression levels of the headers tried (read_header admits 1000..5000).
Levels == {1000, 2000}

\* Seek tables of the headers tried: none, one entry only, regular, an empty
\* first frame, an unaligned start, decreasing offsets, a 4-byte frame as the
\* second, a frame reaching past the end of the file, and a first frame of
\* three words and two bytes, the second starting inside its last word.
SeekTables ==
    { << >>, << 20 >>, << 8, 20 >>, << 8, 8 >>, << 9, 20 >>, << 20, 8 >>,
      << 8, 20, 24 >>, << 8, 40 >>, << 8, 22 >> }

\* Sample widths of the headers tried (read_header admits 8, 16 and 24).
SampleWidths == {8, 16}

\* The headers tried: every field that decode.rs reads, and bits_per_sample.
\* read_header admits channels 1 and 2 only and checks none of the frame and
\* block counts.
Headers ==
    [channels : {1, 2},
     bits_per_sample : SampleWidths,
     compression_level : Levels,
     blocks_per_frame : 0 .. MaxBlocks,
     final_frame_blocks : 0 .. MaxBlocks,
     total_frames : 0 .. MaxFrames,
     seek_table : SeekTables,
     data_offset : {8},
     ape_frame_data_bytes : {24},
     ape_frame_data_bytes_high : {0}]

\* The files tried, 32 bytes each, the frame data from byte 8 on.  The first
\* is a pattern.  The second holds, in the stored byte order, a first frame of
\* which a stereo decoder computes low - help * lt below zero at its second
\* value and divides by zero at its third, and a second frame whose CRC has
\* the high bit set, so that four bytes of frame flags follow it.
\* Every frame these files and seek tables give decodes to samples far inside
\* the native integers.
Files ==
    { SeqOf(LAMBDA i : (i * 37 + 11) % 256, 32),
      << 0, 0, 0, 0, 0, 0, 0, 0,
         120, 86, 52, 18, 0, 254, 254, 0, 25, 255, 127, 206,
         3, 2, 1, 128, 9, 9, 9, 9, 189, 66, 121, 0 >> }

\* What `last` holds before the first call.
NoCall ==
    [called |-> FALSE, frame |-> 0, nblocks |-> 0, remaining |-> 0, io |-> 0,
     cleared |-> FALSE, dirty |-> FALSE, read |-> NoRead, entry |-> NoEntry]

Init ==
    /\ overflow_checks \in BOOLEAN
    /\ header \in Headers
    /\ file \in Files
    /\ dec = Decoder_new(header)
    /\ calls = 0
    /\ result = [item |-> "start", value |-> 0, err |-> ""]
    /\ err_before = FALSE
    /\ yielded = << >>
    /\ pushed = << >>
    /\ blocks = << >>
    /\ lost = 0
    /\ last = NoCall
    /\ IdleFilt /\ IdleRice /\ IdleZig /\ IdleCoder /\ IdleRing

\* The decoder's filters and predictor as Decoder::new makes them.
FreshFilters(h) == Decoder_new(h).filters

\* One call of ApeSamples::next.  A call that panicked or never returned is
\* the last one.
NextSample ==
    /\ result.item \notin {"panic", "hang"}
    /\ calls < MaxCalls
    /\ \E r \in {ApeSamples_next(dec, header, file, overflow_checks)} :
       \E fr \in {r.frame} :
           /\ dec' = r.dec
           /\ result' = [item |-> r.item, value |-> r.value, err |-> r.err]
           /\ yielded' = IF r.item = "ok" THEN Append(yielded, r.value)
                         ELSE yielded
           /\ pushed' = IF fr.cleared THEN pushed \o fr.dec.buffer.samples
                        ELSE pushed
           /\ blocks' = blocks \o fr.blocks
           /\ lost' = lost + (IF fr.cleared THEN fr.remaining ELSE 0)
           /\ last' = [called |-> fr.called, frame |-> fr.frame,
                       nblocks |-> fr.nblocks, remaining |-> fr.remaining,
                       io |-> fr.io, cleared |-> fr.cleared,
                       dirty |-> /\ fr.cleared
                                 /\ \/ dec.filters # FreshFilters(header)
                                    \/ dec.predictor # Predictor_new,
                       read |-> fr.read,
                       entry |-> fr.entry]
    /\ calls' = calls + 1
    /\ err_before' = (err_before \/ result.item = "err")
    /\ UNCHANGED << overflow_checks, header, file, filtVars, riceVars, zig,
                    coder, ring >>

Next == NextSample

Spec == Init /\ [][Next]_vars

\* ------------------------------------------------------------------------
\* Properties of the reader and its iterator (checked under Spec)
\* ------------------------------------------------------------------------

\* Some call so far has returned Some(Err(_)).
ErrSeen == err_before \/ result.item = "err"

\* The decoder is an Iterator the caller can still call.
Alive == result.item \notin {"panic", "hang"}

\* The concatenation of a sequence of sequences.
RECURSIVE Flatten(_)
Flatten(ss) == IF ss = << >> THEN << >> ELSE Head(ss) \o Flatten(Tail(ss))

\* C1: when the iterator has run to its first None without an Err item, the
\* number of Ok items equals total_samples of the header.
C1_SampleCount ==
    (result.item = "none" /\ ~ErrSeen)
        => Len(yielded) = ApeFileHeader_total_samples(header)

\* C2: once a call of next() has returned Some(Err(_)), every later call
\* returns None.
C2_ErrorIsTerminal == err_before => result.item = "none"

\* C3: the Ok items are the samples pushed into the buffer, in push order,
\* each once: what has been yielded is the front of what has been pushed, what
\* has not been yielded is what the buffer still holds, and what has been pushed
\* is, block after block, one sample of a mono block or the left and then the
\* right sample of a stereo block.
C3_YieldedArePushed ==
    /\ pushed = Flatten(blocks)
    /\ \A i \in 1 .. Len(blocks) : Len(blocks[i]) = header.channels
    /\ Len(yielded) <= Len(pushed)
    /\ yielded = SubSeq(pushed, 1, Len(yielded))
    /\ Alive => Len(pushed) - Len(yielded) = SampleBuffer_remaining(dec.buffer)
    /\ Alive => SubSeq(pushed, Len(yielded) + 1, Len(pushed))
                = SubSeq(dec.buffer.samples, dec.buffer.pos + 1,
                         Len(dec.buffer.samples))

\* C3 witness: a stereo stream of which two blocks of distinct left and right
\* samples have been yielded, the second frame being decoded.
C3_Witness ==
    /\ header.channels = 2
    /\ Len(yielded) >= 4
    /\ blocks[1][1] # blocks[1][2]
    /\ last.called /\ last.frame >= 1 /\ last.cleared

\* C4: decode_next_frame is entered only with an exhausted buffer, and clear()
\* discards no sample that has not been yielded.
C4_ClearLosesNothing ==
    /\ lost = 0
    /\ last.called => last.remaining = 0

\* C4 witness: clear() has run for a frame after the first, all the samples of
\* the frames before having been yielded.
C4_Witness ==
    /\ last.called /\ last.cleared /\ last.frame >= 1
    /\ Len(yielded) >= 2
    /\ lost = 0

\* C5: when the block loop of a frame is entered, every NNFilter stage and the
\* predictor are as newly constructed, the range coder is newly constructed
\* over the frame's data and there is one new Rice state (k = 10,
\* ksum = 16384) per channel.
C5_FreshStatePerFrame ==
    last.entry.reached =>
        /\ last.entry.filters = FreshFilters(header)
        /\ last.entry.predictor = Predictor_new
        /\ last.entry.rc = RangeCoder_new(last.entry.data)
        /\ Len(last.entry.rice) = header.channels
        /\ \A c \in 1 .. Len(last.entry.rice) :
               last.entry.rice[c] = [k |-> 10, ksum |-> << 0, 16384 >>]
        /\ last.entry.buffered = 0

\* C5 witness: the block loop of a frame after the first is entered, and the
\* frame before had left the filters or the predictor changed.
C5_Witness ==
    /\ last.entry.reached
    /\ last.frame >= 1
    /\ last.dirty

\* The case of C10: decode_next_frame was called for a frame below
\* total_frames with a non-zero block count and an index outside the seek table.
C10_Case ==
    /\ last.called
    /\ last.frame < header.total_frames
    /\ Decoder_nblocks([current_frame |-> last.frame], header) # 0
    /\ last.frame >= Len(header.seek_table)

\* C10: in that case the call returns Err(InvalidSeekTable) and makes no call
\* on the reader.
C10_InvalidSeekTable ==
    C10_Case =>
        /\ result.item = "err"
        /\ result.err = "InvalidSeekTable"
        /\ last.io = 0

\* C10 witness: the case arises at the second frame, the first one decoded.
C10_Witness == C10_Case /\ last.frame >= 1 /\ Len(yielded) >= 1

\* The latest call of next() had read_frame_data compute a byte range for an
\* entry of the seek table.
RangeComputed ==
    /\ last.called
    /\ last.read.kind # "none"
    /\ last.frame < Len(header.seek_table)

\* The frame's byte window exists: its range is in order and inside the file.
WindowRead ==
    /\ RangeComputed
    /\ last.read.start <= last.read.end
    /\ last.read.end <= Len(file)

\* The size of the window of the latest call.
WindowSize == last.read.end - last.read.start

\* The prefix P of the window w of a frame with seek-table entry e:
\* (e & 3) + 4 + (4 if the CRC, the four bytes after the alignment skip read
\* big-endian, has its high bit set) + 1.
FramePrefix(e, w) ==
    (e % 4) + 4
    + (IF (e % 4) + 1 <= Len(w) /\ w[(e % 4) + 1] >= 128 THEN 4 ELSE 0)
    + 1

\* The prefix of the window of the latest call.
LastPrefix ==
    FramePrefix(header.seek_table[last.frame + 1], last.read.data)

\* C11: a frame whose window has size 0, or is shorter than its prefix P,
\* gives Err(UnexpectedEof) and no range coder; for every other window the
\* range coder is constructed over exactly the window's bytes from offset P on.
C11_PrefixOrEof ==
    WindowRead =>
        IF WindowSize = 0 \/ WindowSize < LastPrefix
        THEN /\ result.item = "err"
             /\ result.err = "UnexpectedEof"
             /\ ~last.entry.reached
        ELSE /\ Len(last.read.data) = WindowSize
             /\ last.entry.reached
             /\ last.entry.data
                    = SubSeq(last.read.data, LastPrefix + 1, WindowSize)

\* C11 witness: the second frame has a CRC with its high bit set and three
\* bytes after the nine of its prefix, and the range coder was constructed;
\* the first frame was decoded.
C11_Witness ==
    /\ WindowRead
    /\ last.frame = 1
    /\ Len(yielded) >= 1
    /\ last.read.data[1] >= 128
    /\ LastPrefix = 9
    /\ WindowSize = 12
    /\ last.entry.reached

\* C12 as stated: the range read for frame i starts at seek_table[i] & ~3 and
\* ends at seek_table[i + 1] when i < total_frames - 1, and at data_offset +
\* (ape_frame_data_bytes | ape_frame_data_bytes_high << 32) when
\* i = total_frames - 1, whatever the length of the seek table.
C12_SpanAsStated ==
    RangeComputed =>
        /\ last.read.start
               = header.seek_table[last.frame + 1]
                 - (header.seek_table[last.frame + 1] % 4)
        /\ IF last.frame < header.total_frames - 1
           THEN /\ last.frame + 2 <= Len(header.seek_table)
                /\ last.read.end = header.seek_table[last.frame + 2]
           ELSE last.read.end
                    = header.data_offset + header.ape_frame_data_bytes
                      + header.ape_frame_data_bytes_high * (2 ^ 16) * (2 ^ 16)

\* C13: the data read_frame_data returns for a window of n bytes has
\* out[4w + j] = in[4w + 3 - j] in every full word w < n div 4, and
\* out[p] = in[p] in the trailing n mod 4 bytes; the same swap applied to it
\* gives the window back.
C13_ByteSwap ==
    (RangeComputed /\ last.read.kind = "ok") =>
        /\ Len(last.read.data) = WindowSize
        /\ \A p \in 0 .. WindowSize - 1 :
               last.read.data[p + 1]
                   = IF p \div 4 < WindowSize \div 4
                     THEN file[last.read.start + 4 * (p \div 4)
                               + (3 - (p % 4)) + 1]
                     ELSE file[last.read.start + p + 1]
        /\ ByteSwapWords(last.read.data)
               = SubSeq(file, last.read.start + 1, last.read.end)

\* C13 witness: a window of three full words and two trailing bytes was read,
\* and the swap changed it.
C13_Witness ==
    /\ RangeComputed
    /\ last.read.kind = "ok"
    /\ WindowSize = 14
    /\ last.read.data # SubSeq(file, last.read.start + 1, last.read.end)

\* C15 as stated: every sample yielded lies in the signed range of the
\* header's bits_per_sample, -2^(bps-1) <= s < 2^(bps-1).
C15_SamplesInRange ==
    \A i \in 1 .. Len(yielded) :
        /\ 0 - (2 ^ (header.bits_per_sample - 1)) <= yielded[i]
        /\ yielded[i] < 2 ^ (header.bits_per_sample - 1)

\* ------------------------------------------------------------------------
\* The construction of the reader: SpecOpen
\* ------------------------------------------------------------------------

\* The values tried for the fields that parse_header validates, as
\* read_u16_le returns them.
RawHeaders ==
    [version : {3989, 3990},
     channels : 0 .. 3,
     bits_per_sample : {0, 8, 16, 24, 32},
     compression_level : {0, 999, 1000, 2000, 3000, 4000, 5000, 6000}]

InitOpen ==
    /\ header \in RawHeaders
    /\ dec = << >>
    /\ result = [item |-> "start", value |-> 0, err |-> ""]
    /\ file = << >> /\ calls = 0 /\ err_before = FALSE /\ yielded = << >>
    /\ pushed = << >> /\ blocks = << >> /\ lost = 0 /\ last = << >>
    /\ overflow_checks = FALSE
    /\ IdleFilt /\ IdleRice /\ IdleZig /\ IdleCoder /\ IdleRing

\* ApeReader::new over a file with the values of `header`.
Open ==
    /\ result.item = "start"
    /\ \E r \in {ApeReader_new(header)} :
           /\ dec' = r.decoder
           /\ result' = [item |-> r.kind, value |-> r.value, err |-> r.err]
    /\ UNCHANGED << overflow_checks, header, file, calls, err_before, yielded,
                    pushed, blocks, lost, last, filtVars, riceVars, zig,
                    coder, ring >>

NextOpen == Open

SpecOpen == InitOpen /\ [][NextOpen]_vars

\* The header's fields are all valid.
ValidHeader ==
    /\ header.version >= 3990
    /\ header.channels \in {1, 2}
    /\ header.bits_per_sample \in {8, 16, 24}
    /\ header.compression_level \in {1000, 2000, 3000, 4000, 5000}

\* C14: ApeReader::new returns an error and constructs no decoder whenever the
\* header is invalid; the error is that of the first test to fail, version,
\* then channels and bits_per_sample, then compression level:
\* UnsupportedVersion(v), InvalidHeader, UnsupportedCompressionLevel(l); and a
\* constructed decoder has fset in 0..4 and one NNFilter per channel.
C14_HeaderErrors ==
    result.item # "start" =>
        /\ ~ValidHeader => result.item = "err" /\ dec = << >>
        /\ header.version < 3990
              => result.err = "UnsupportedVersion"
                 /\ result.value = header.version
        /\ (/\ header.version >= 3990
            /\ \/ header.channels \notin {1, 2}
               \/ header.bits_per_sample \notin {8, 16, 24})
              => result.err = "InvalidHeader"
        /\ (/\ header.version >= 3990
            /\ header.channels \in {1, 2}
            /\ header.bits_per_sample \in {8, 16, 24}
            /\ header.compression_level
                  \notin {1000, 2000, 3000, 4000, 5000})
              => result.err = "UnsupportedCompressionLevel"
                 /\ result.value = header.compression_level
        /\ result.item = "ok"
              => /\ dec.fset \in 0 .. 4
                 /\ Len(dec.filters) = header.channels

\* C14 witness: a header whose only fault is a channel count of 0 was
\* refused with InvalidHeader, and no decoder was constructed.
C14_Witness ==
    /\ result.item = "err"
    /\ result.err = "InvalidHeader"
    /\ header.channels = 0
    /\ header.version >= 3990
    /\ header.bits_per_sample = 16
    /\ header.compression_level = 5000
    /\ dec = << >>

\* C26: once next() has returned None, every later call returns None; the
\* finished flag, once set, is never cleared; and after a None no call reads
\* or decodes a frame: the reader is not touched, the frame index stays, and
\* the buffer and the filters are not reset.
C26_NoneIsFinal ==
    [][/\ dec.finished => dec'.finished
       /\ result.item = "none" =>
            /\ dec.finished
            /\ result'.item = "none"
            /\ last'.read = NoRead
            /\ last'.io = 0
            /\ ~last'.cleared
            /\ dec'.current_frame = dec.current_frame]_vars

\* C26 witness: a call has returned None without calling decode_next_frame,
\* after samples were yielded: finished was set by an earlier None.
C26_Witness ==
    /\ result.item = "none"
    /\ ~last.called
    /\ dec.finished
    /\ Len(yielded) > 0
    /\ dec.current_frame = header.total_frames

\* C30 as stated: read_frame_data never computes a frame size from
\* end < start: whenever the window's end precedes its 4-byte-aligned start
\* the call returns an error value.
C30_ReversedWindowIsError ==
    RangeComputed /\ last.read.end < last.read.start =>
        /\ last.read.kind = "err"
        /\ result.item = "err"

\* ------------------------------------------------------------------------
\* An NNFilter stage and a predictor on their own: SpecFilter
\* ------------------------------------------------------------------------

\* decompress / decode calls made on the stage and the predictor together.
MaxFilterOps == 2

\* The inputs tried.
FilterInputs == {-300, 0, 900}

\* The (order, fracbits) of the stages tried: the first stages of filter sets
\* 1 and 3.
StageParams ==
    { << FILTER_ORDERS[2][1], FILTER_FRACBITS[2][1] >>,
      << FILTER_ORDERS[4][1], FILTER_FRACBITS[4][1] >> }

InitFilter ==
    /\ stage \in { NNFilterStage_new(sp[1], sp[2]) : sp \in StageParams }
    /\ pred = Predictor_new
    /\ fop = [op |-> "new", stage_was_dirty |-> FALSE, pred_was_dirty |-> FALSE]
    /\ fcount = 0
    /\ overflow_checks = FALSE
    /\ IdleDec /\ IdleRice /\ IdleZig /\ IdleCoder /\ IdleRing

\* NNFilterStage::decompress(v).
StageDecompress ==
    /\ fcount < MaxFilterOps
    /\ \E v \in FilterInputs :
           stage' = NNFilterStage_decompress(stage, v).st
    /\ fop' = [fop EXCEPT !.op = "decompress"]
    /\ fcount' = fcount + 1
    /\ UNCHANGED << pred, overflow_checks, decVars, riceVars, zig, coder,
                    ring >>

\* Predictor::decode_mono(v).
PredDecodeMono ==
    /\ fcount < MaxFilterOps
    /\ \E v \in FilterInputs : pred' = Predictor_decode_mono(pred, v).p
    /\ fop' = [fop EXCEPT !.op = "decode_mono"]
    /\ fcount' = fcount + 1
    /\ UNCHANGED << stage, overflow_checks, decVars, riceVars, zig, coder,
                    ring >>

\* Predictor::decode_stereo(y, x).
PredDecodeStereo ==
    /\ fcount < MaxFilterOps
    /\ \E y \in FilterInputs, x \in FilterInputs :
           pred' = Predictor_decode_stereo(pred, y, x).p
    /\ fop' = [fop EXCEPT !.op = "decode_stereo"]
    /\ fcount' = fcount + 1
    /\ UNCHANGED << stage, overflow_checks, decVars, riceVars, zig, coder,
                    ring >>

\* NNFilterStage::reset.
StageReset ==
    /\ stage' = NNFilterStage_reset(stage)
    /\ fop' = [fop EXCEPT
                 !.op = "stage_reset",
                 !.stage_was_dirty =
                     stage # NNFilterStage_new(stage.order, stage.fracbits)]
    /\ UNCHANGED << pred, fcount, overflow_checks, decVars, riceVars, zig,
                    coder, ring >>

\* Predictor::reset.
PredReset ==
    /\ pred' = Predictor_reset(pred)
    /\ fop' = [fop EXCEPT !.op = "pred_reset",
                          !.pred_was_dirty = (pred # Predictor_new)]
    /\ UNCHANGED << stage, fcount, overflow_checks, decVars, riceVars, zig,
                    coder, ring >>

NextFilter ==
    \/ StageDecompress
    \/ PredDecodeMono
    \/ PredDecodeStereo
    \/ StageReset
    \/ PredReset

SpecFilter == InitFilter /\ [][NextFilter]_vars

\* C7: after any decompress / decode calls, reset() leaves a stage or the
\* predictor equal to a newly constructed one with the same parameters, and a
\* second reset() changes nothing.
C7_ResetRestoresNew ==
    /\ NNFilterStage_reset(stage)
           = NNFilterStage_new(stage.order, stage.fracbits)
    /\ NNFilterStage_reset(NNFilterStage_reset(stage))
           = NNFilterStage_reset(stage)
    /\ Predictor_reset(pred) = Predictor_new
    /\ Predictor_reset(Predictor_reset(pred)) = Predictor_reset(pred)
    /\ fop.op = "stage_reset"
           => stage = NNFilterStage_new(stage.order, stage.fracbits)
    /\ fop.op = "pred_reset" => pred = Predictor_new

\* C7 witness: both a stage and the predictor have been reset from a state
\* that differed from the newly constructed one.
C7_Witness ==
    /\ fop.stage_was_dirty
    /\ fop.pred_was_dirty
    /\ fop.op \in {"stage_reset", "pred_reset"}

\* ------------------------------------------------------------------------
\* A Rice state on its own: SpecRice
\* ------------------------------------------------------------------------

\* How often the input of update may change from one call to the next.
MaxSwitches == 1

\* The inputs tried: 0, 2^16 - 1, 2^32 - 2 and 2^32 - 1.
RiceInputs == { U32Zero, << 0, W16 - 1 >>, << W16 - 1, W16 - 2 >>, U32Max }

InitRice ==
    /\ overflow_checks \in BOOLEAN
    /\ rice = RiceState_new
    /\ rice_st = "ok"
    /\ rice_x = << >>
    /\ rice_sw = 0
    /\ IdleDec /\ IdleFilt /\ IdleZig /\ IdleCoder /\ IdleRing

\* RiceState::update(x).  With overflow checks an overflowing addition panics.
RiceUpdate ==
    /\ rice_st = "ok"
    /\ \E x \in RiceInputs :
        /\ rice_x \in {<< >>, x} \/ rice_sw < MaxSwitches
        /\ IF overflow_checks /\ RiceState_update_overflows(rice, x)
           THEN rice' = rice /\ rice_st' = "panic"
           ELSE rice' = RiceState_update(rice, x) /\ rice_st' = "ok"
        /\ rice_x' = x
        /\ rice_sw' = IF rice_x \in {<< >>, x} THEN rice_sw ELSE rice_sw + 1
    /\ UNCHANGED << overflow_checks, decVars, filtVars, zig, coder, ring >>

NextRice == RiceUpdate

SpecRice == InitRice /\ [][NextRice]_vars

\* C8: from RiceState::new(), after every update k is in [0, 24].
C8_RiceKRange == rice.k \in 0 .. 24

\* C8 witness: an update has left k at 24 with ksum at 2^29 or above, where
\* only the guard k < 24 keeps k from growing.
C8_Witness ==
    /\ rice_x # << >>
    /\ rice_st = "ok"
    /\ rice.k = 24
    /\ BigLe(U32Bit(29), rice.ksum)

\* ksum + ((x + 1) / 2) - ((ksum + 16) >> 5) in wrapping u32 arithmetic, the
\* subtracted term taken from ksum as it is before the addition.
KsumAsStated(ksum, x) ==
    U32WrappingSub(
        Wrap32(BigAdd(ksum, U32Shr(Wrap32(BigAdd(x, U32Of(1))), 1))),
        U32Shr(Wrap32(BigAdd(ksum, U32Of(16))), 5))

\* C16 as stated: every update(x) that returns sets ksum to
\* ksum_old + ((x + 1) / 2) - ((ksum_old + 16) >> 5), wrapping.
C16_KsumAsStated ==
    [][rice_st' = "ok" => rice'.ksum = KsumAsStated(rice.ksum, rice_x')]_vars

\* ksum is at or above 2^(k + 4), or k is 0.
KsumAtLeastBand(r) == r.k = 0 \/ BigLe(U32Bit(r.k + 4), r.ksum)

\* ksum is below 2^(k + 5), or k is 24.
KsumBelowBand(r) == r.k = 24 \/ BigLt(r.ksum, U32Bit(r.k + 5))

ZigSpan == 3

\* The magnitudes tried.
ZigzagInputs ==
    { << 0, n >> : n \in 0 .. ZigSpan }
    \cup { << W16 \div 2 - 1, W16 - 1 - n >> : n \in 0 .. ZigSpan }
    \cup { << W16 \div 2, n >> : n \in 0 .. ZigSpan }
    \cup { << W16 - 1, W16 - 1 - n >> : n \in 0 .. ZigSpan }

InitZigzag ==
    /\ zig \in [a : ZigzagInputs, b : ZigzagInputs, ya : {0}, yb : {0},
                done : {FALSE}]
    /\ overflow_checks = FALSE
    /\ IdleDec /\ IdleFilt /\ IdleRice /\ IdleCoder /\ IdleRing

\* The mapping applied to both magnitudes.
ZigzagApply ==
    /\ ~zig.done
    /\ zig' = [zig EXCEPT !.ya = ZigzagDecode(zig.a),
                          !.yb = ZigzagDecode(zig.b),
                          !.done = TRUE]
    /\ UNCHANGED << overflow_checks, decVars, filtVars, riceVars, coder, ring >>

NextZigzag == ZigzagApply

SpecZigzag == InitZigzag /\ [][NextZigzag]_vars

\* y is (x >> 1) + 1 for an odd x and -(x >> 1) for an even x, as integers.
ZigzagIs(x, y) ==
    IF x[2] % 2 = 1
    THEN y > 0 /\ y - 1 = U32ToInt(U32Shr(x, 1))
    ELSE 0 - y = U32ToInt(U32Shr(x, 1))

\* C9 as stated: for every magnitude x the mapping returns (x >> 1) + 1 when x
\* is odd and -(x >> 1) when x is even, and it is injective.
C9_ZigzagAsStated ==
    zig.done =>
        /\ ZigzagIs(zig.a, zig.ya)
        /\ zig.a # zig.b => zig.ya # zig.yb

\* C9, the part that holds without overflow checks: the mapping returns
\* (x >> 1) + 1 for an odd x below 2^32 - 1 and -(x >> 1) for an even x; for
\* x = 2^32 - 1 it returns -2^31, the i32 that the cast makes of 2^31; and it
\* is injective.
C9_ZigzagExceptMax ==
    zig.done =>
        /\ zig.a # U32Max => ZigzagIs(zig.a, zig.ya)
        /\ zig.a = U32Max => zig.ya = (0 - 2147483647) - 1
        /\ zig.a # zig.b => zig.ya # zig.yb

\* ------------------------------------------------------------------------
\* A range coder on its own: SpecCoder
\* ------------------------------------------------------------------------

\* How many decode operations one coder is asked for.
MaxCoderOps == 2

\* The value decode_culshift(16) returns first on a slice is
\* ((d0 >> 1) << 9) + (d1 << 1) + (d2 >> 7).  The values tried: both sides of
\* every boundary of COUNTS_3980, and the two ends of the last bucket.
CoderCfs ==
    { COUNTS_3980[i] : i \in 1 .. MODEL_ELEMENTS }
        \cup { COUNTS_3980[i] - 1 : i \in 2 .. MODEL_ELEMENTS }
        \cup { 65535 }

\* The three bytes that make decode_culshift(16) return cf first.
CoderHead(cf) ==
    << 2 * (cf \div 512), (cf \div 2) % 256, 128 * (cf % 2) >>

\* What follows the three bytes.
CoderTails ==
    { << 0, 0, 0, 0, 0, 0, 0, 0 >>,
      << 127, 18, 52, 86, 120, 154, 188, 222 >>,
      << 255, 255, 255, 255, 255, 255, 255, 255 >> }

\* The slices tried: the empty one, one byte, all ones, one on which
\* get_overflow escapes once and returns 35, and every head with every tail.
CoderSlices ==
    { << >>, << 171 >>, << 255, 255, 255, 255, 255, 255, 255, 255 >>,
      << 255, 255, 251, 0, 0, 0, 0, 0, 0, 0, 0 >> }
        \cup { CoderHead(cf) \o t : cf \in CoderCfs, t \in CoderTails }

\* The Rice states tried: new (pivot 512), new after update(2^32 - 2) (pivot
\* 65012207, the large-pivot branch of decode_value) and new after two such
\* updates (pivot 127992288).
CoderRices ==
    { RiceState_new,
      RiceState_update(RiceState_new, << W16 - 1, W16 - 2 >>),
      RiceState_update(RiceState_update(RiceState_new, << W16 - 1, W16 - 2 >>),
                       << W16 - 1, W16 - 2 >>) }

\* No coder yet.
NoCoder ==
    [data |-> << >>, pos |-> 0, low |-> U32Zero, range |-> U32Zero,
     help |-> U32Zero, st |-> "none"]

\* coder is [data, rice, rc, before, rice_before, op, v, value, n]: the slice,
\* the Rice state, the coder, the coder and the Rice state before the last
\* operation, the last operation, the u32 it returned (decode_value: the
\* magnitude x), the i32 decode_value returned, the number of decode operations.
InitCoder ==
    /\ overflow_checks \in BOOLEAN
    /\ \E d \in CoderSlices, r \in CoderRices :
        coder = [data |-> d, rice |-> r, rc |-> NoCoder, before |-> NoCoder,
                 rice_before |-> r, op |-> "none", v |-> U32Zero,
                 value |-> 0, n |-> 0]
    /\ IdleDec /\ IdleFilt /\ IdleRice /\ IdleZig /\ IdleRing

\* RangeCoder::new(data).
CoderNew ==
    /\ coder.op = "none"
    /\ coder' = [coder EXCEPT !.rc = RangeCoder_new(coder.data),
                              !.op = "new"]
    /\ UNCHANGED << overflow_checks, decVars, filtVars, riceVars, zig, ring >>

\* A call of get_symbol or get_overflow has returned s = [rc, v].
CoderReturned(op, s) ==
    coder' = [coder EXCEPT !.rc = s.rc, !.before = coder.rc,
                           !.rice_before = coder.rice, !.op = op,
                           !.v = s.v, !.value = 0, !.n = @ + 1]

\* RangeCoder::get_symbol.
CoderGetSymbol ==
    /\ coder.rc.st = "ok"
    /\ coder.n < MaxCoderOps
    /\ CoderReturned("get_symbol",
                     RangeCoder_get_symbol(coder.rc, overflow_checks))
    /\ UNCHANGED << overflow_checks, decVars, filtVars, riceVars, zig, ring >>

\* RangeCoder::get_overflow.
CoderGetOverflow ==
    /\ coder.rc.st = "ok"
    /\ coder.n < MaxCoderOps
    /\ CoderReturned("get_overflow",
                     RangeCoder_get_overflow(coder.rc, overflow_checks))
    /\ UNCHANGED << overflow_checks, decVars, filtVars, riceVars, zig, ring >>

\* A call of decode_value has returned d = [rc, rice, x, value].
CoderDecoded(d) ==
    coder' = [coder EXCEPT !.rc = d.rc, !.rice = d.rice,
                           !.before = coder.rc, !.rice_before = coder.rice,
                           !.op = "decode_value", !.v = d.x,
                           !.value = d.value, !.n = @ + 1]

\* RangeCoder::decode_value(rice).
CoderDecodeValue ==
    /\ coder.rc.st = "ok"
    /\ coder.n < MaxCoderOps
    /\ CoderDecoded(RangeCoder_decode_value(coder.rc, coder.rice,
                                            overflow_checks))
    /\ UNCHANGED << overflow_checks, decVars, filtVars, riceVars, zig, ring >>

NextCoder ==
    \/ CoderNew
    \/ CoderGetSymbol
    \/ CoderGetOverflow
    \/ CoderDecodeValue

SpecCoder == InitCoder /\ [][NextCoder]_vars

\* C18 as stated: RangeCoder::new consumes exactly the first byte of the
\* slice and leaves low = first_byte >> 1 and range = 128, without
\* normalizing.
C18_NewAsStated ==
    coder.op = "new" /\ coder.data # << >> =>
        /\ coder.rc.pos = 1
        /\ coder.rc.low = U32Of(coder.data[1] \div 2)
        /\ coder.rc.range = U32Of(128)

\* decode_value's parts in the stated order, after get_overflow returned o on
\* the coder as decode_value found it: the base is read from the coder o left,
\* whatever the pivot.
OverflowFirstParts(o, pivot) ==
    IF BigLt(pivot, U32Of(65536))
    THEN RangeCoder_decode_parts_of(
             RC_take(o.rc, IF o.rc.st = "ok" THEN U32Div(o.rc.range, pivot)
                           ELSE U32Zero,
                     BigSub(pivot, U32Of(1))),
             o)
    ELSE RangeCoder_decode_parts_of(
             RangeCoder_decode_base_split(o.rc, BitLength(pivot) - 16), o)

\* decode_value with the overflow read before the base for every pivot.
OverflowFirst(rc, rs, oc) ==
    RangeCoder_decode_value_parts(
        OverflowFirstParts(RangeCoder_get_overflow(rc, oc),
                           RiceState_pivot(rs)),
        rs, RiceState_pivot(rs), oc)

\* The coder and the magnitude of the last decode_value are those of the
\* stated order.
DecodedOverflowFirst ==
    LET d == OverflowFirst(coder.before, coder.rice_before, overflow_checks)
    IN  coder.rc = d.rc /\ coder.v = d.x

\* The last get_overflow read past its first symbol exactly when that symbol
\* was 63.
EscapedOn63 ==
    LET sym == RangeCoder_get_symbol(coder.before, overflow_checks)
    IN  coder.rc # sym.rc <=> sym.v = U32Of(63)

\* C19 as stated: in decode_value, for every pivot, the overflow symbol is
\* decoded before the base, and an overflow symbol equal to 63, and only
\* that, triggers the escape that reads further raw numbers.
C19_OverflowFirstEscape63 ==
    /\ coder.op = "decode_value" => DecodedOverflowFirst
    /\ coder.op = "get_overflow" => EscapedOn63

\* What decode_culshift(16) returned to the last get_symbol: [rc, v].
SymbolCulled == RangeCoder_decode_culshift(coder.before, 16)

\* The largest index lo (0-based) with COUNTS_3980[lo] <= cf.
LargestAtMost(cf) ==
    CHOOSE lo \in 0 .. MODEL_ELEMENTS - 1 :
        /\ COUNTS_3980[lo + 1] <= cf
        /\ \A j \in 0 .. MODEL_ELEMENTS - 1 :
            COUNTS_3980[j + 1] <= cf => j <= lo

\* The coder after decode_update(C[lo], D[lo]) on the coder c.
UpdatedFor(c, lo) ==
    RangeCoder_decode_update(c, U32Of(COUNTS_3980[lo + 1]),
                             U32Of(COUNTS_DIFF_3980[lo + 1]),
                             overflow_checks)

\* C20: for every cumulative frequency cf in 0..65492, get_symbol returns the
\* largest index lo with C[lo] <= cf, that index is at most 20, and the coder
\* is updated with lower bound C[lo] and width D[lo].
C20_SymbolIsLargest ==
    coder.op = "get_symbol" /\ U32ToInt(SymbolCulled.v) <= 65492 =>
        /\ LargestAtMost(U32ToInt(SymbolCulled.v)) <= 20
        /\ coder.v = U32Of(LargestAtMost(U32ToInt(SymbolCulled.v)))
        /\ coder.rc = UpdatedFor(SymbolCulled.rc,
                                 LargestAtMost(U32ToInt(SymbolCulled.v)))

\* C20 witness: get_symbol has met cf = 65492, the last value before the
\* escape bucket, returned 20 and left a working coder.
C20_Witness ==
    /\ coder.op = "get_symbol"
    /\ U32ToInt(SymbolCulled.v) = 65492
    /\ coder.v = U32Of(20)
    /\ coder.rc.st = "ok"
    /\ coder.rc # coder.before

\* The base and the overflow the last decode_value read: [rc, base, overflow].
DecodedParts ==
    RangeCoder_decode_parts(coder.before, RiceState_pivot(coder.rice_before),
                            overflow_checks)

\* C21 as stated: decode_value computes x = base + overflow * pivot modulo
\* 2^32 and the Rice update that follows never traps: once the base and the
\* overflow are read the operation completes, with the wrapped x.
C21_WrapsNeverTraps ==
    coder.op = "decode_value" /\ DecodedParts.rc.st = "ok" =>
        /\ coder.rc.st = "ok"
        /\ coder.v = Wrap32(BigAdd(DecodedParts.base,
                                   U32WrappingMul(DecodedParts.overflow,
                                       RiceState_pivot(coder.rice_before))))

\* C27 as stated: for any input bytes and any reachable Rice state, after
\* every normalize 2^23 < range <= 2^31, the byte cursor never exceeds the
\* slice length, and every division of decode_value, get_symbol and
\* get_overflow has a divisor help >= 1.  Without overflow checks a division
\* by zero is the only panic of the coder.
C27_RangeAndDivisors ==
    coder.op # "none" /\ ~overflow_checks =>
        /\ coder.rc.st = "ok"
        /\ BigLt(BOTTOM_VALUE, coder.rc.range)
        /\ BigLe(coder.rc.range, TOP_VALUE)
        /\ coder.rc.pos <= Len(coder.data)

\* ------------------------------------------------------------------------
\* A filter stage or a predictor run beside an unbounded one: SpecRing
\* ------------------------------------------------------------------------

\* A run's inputs are a lead, one input repeated up to MaxLead times, and then
\* up to MaxFree inputs chosen freely.
MaxLead == 520

MaxFree == 2

\* The calls of the long runs, which have a lead only.
MaxAdapt == 3870

\* The leads and the free inputs tried.
RingLeads == {0, 1}

RingInputs == {-300, 900}

\* The buffer buf with a 0-based index top: zeros are appended as needed.
Grown(buf, top) ==
    IF Len(buf) > top THEN buf ELSE buf \o Zeros(top + 1 - Len(buf))

\* decompress on a history buffer without end: the step with no wrap.
Unbounded_decompress(u, input) ==
    NNFilterStage_step(
        [u EXCEPT !.historybuffer = Grown(@, u.delay_pos)], input)

\* The advance on a predictor buffer without end, of a step's result r.
Unbounded_advanced(r) == [r EXCEPT !.p.buf_pos = @ + 1]

\* decode_mono on a zero-initialised buffer without end, the cursor never
\* wrapping.
Unbounded_decode_mono(u, input) ==
    Unbounded_advanced(
        Predictor_mono_step(
            [u EXCEPT !.buf = Grown(@, u.buf_pos + YDELAYA)], input))

\* decode_stereo on a zero-initialised buffer without end.
Unbounded_decode_stereo(u, input_y, input_x) ==
    Unbounded_advanced(
        Predictor_stereo_step(
            [u EXCEPT !.buf = Grown(@, u.buf_pos + YDELAYA)],
            input_y, input_x))

\* ring is [kind, st, ref, lead, maxlead, maxfree, n, free, input, out,
\* refout, before]: kind "stage", "mono" or "stereo"; st the stage or the
\* predictor; ref the same run on a buffer without end; n the calls made and
\* free those after the lead; input, out and refout of the last call, as
\* pairs whose second entry is 0 unless the call is decode_stereo; before is
\* st before the last call.
RingStart(kind, st, lead, maxlead, maxfree) ==
    [kind |-> kind, st |-> st, ref |-> st, lead |-> << lead, 0 >>,
     maxlead |-> maxlead, maxfree |-> maxfree, n |-> 0, free |-> 0,
     input |-> << lead, 0 >>, out |-> << 0, 0 >>, refout |-> << 0, 0 >>,
     before |-> st]

RingStarts ==
    { RingStart("stage", NNFilterStage_new(sp[1], sp[2]), l, MaxLead,
                MaxFree) : sp \in StageParams, l \in RingLeads }
    \cup { RingStart("stage",
                     NNFilterStage_new(FILTER_ORDERS[2][1],
                                       FILTER_FRACBITS[2][1]),
                     l, MaxAdapt, 0) : l \in {-1, 1} }
    \cup { RingStart(kind, Predictor_new, l, MaxLead, MaxFree) :
             kind \in {"mono", "stereo"}, l \in RingLeads }

InitRing ==
    /\ overflow_checks = FALSE
    /\ ring \in RingStarts
    /\ IdleDec /\ IdleFilt /\ IdleRice /\ IdleZig /\ IdleCoder

\* The input v continues the lead or is one of the free inputs left.
RingAllowed(v) ==
    IF ring.free = 0 /\ v = ring.lead
    THEN ring.n < ring.maxlead
    ELSE ring.free < ring.maxfree

\* A call with input v has returned out, leaving st, and its unbounded
\* counterpart refout, leaving ref.
RingCalled(v, st, out, ref, refout) ==
    ring' = [ring EXCEPT
               !.st = st, !.ref = ref, !.input = v, !.out = out,
               !.refout = refout, !.before = ring.st, !.n = @ + 1,
               !.free = IF ring.free = 0 /\ v = ring.lead THEN 0 ELSE @ + 1]

RingStageCalled(v, r, u) ==
    RingCalled(v, r.st, << r.out, 0 >>, u.st, << u.out, 0 >>)

\* NNFilterStage::decompress(v[1]).
RingDecompress ==
    /\ ring.kind = "stage"
    /\ \E v \in (RingInputs \X {0}) \cup {ring.lead} :
        /\ RingAllowed(v)
        /\ RingStageCalled(v, NNFilterStage_decompress(ring.st, v[1]),
                           Unbounded_decompress(ring.ref, v[1]))
    /\ UNCHANGED << overflow_checks, decVars, filtVars, riceVars, zig, coder >>

RingMonoCalled(v, r, u) ==
    RingCalled(v, r.p, << r.out, 0 >>, u.p, << u.out, 0 >>)

\* Predictor::decode_mono(v[1]).
RingDecodeMono ==
    /\ ring.kind = "mono"
    /\ \E v \in (RingInputs \X {0}) \cup {ring.lead} :
        /\ RingAllowed(v)
        /\ RingMonoCalled(v, Predictor_decode_mono(ring.st, v[1]),
                          Unbounded_decode_mono(ring.ref, v[1]))
    /\ UNCHANGED << overflow_checks, decVars, filtVars, riceVars, zig, coder >>

RingStereoCalled(v, r, u) ==
    RingCalled(v, r.p, << r.left, r.right >>, u.p, << u.left, u.right >>)

\* Predictor::decode_stereo(v[1], v[2]).
RingDecodeStereo ==
    /\ ring.kind = "stereo"
    /\ \E v \in (RingInputs \X RingInputs) \cup {ring.lead} :
        /\ RingAllowed(v)
        /\ RingStereoCalled(v, Predictor_decode_stereo(ring.st, v[1], v[2]),
                            Unbounded_decode_stereo(ring.ref, v[1], v[2]))
    /\ UNCHANGED << overflow_checks, decVars, filtVars, riceVars, zig, coder >>

NextRing ==
    \/ RingDecompress
    \/ RingDecodeMono
    \/ RingDecodeStereo

SpecRing == InitRing /\ [][NextRing]_vars

\* sum >> fracbits for the dot product of the stage st: the plain arithmetic
\* shift, nothing added before it.
ShiftedSum(st) ==
    DotProductHigh(st.coeffs, st.historybuffer, st.delay_pos - st.order,
                   st.order, st.fracbits)
    + (DotProductLow(st.coeffs, st.historybuffer, st.delay_pos - st.order,
                     st.order, st.fracbits) \div (2 ^ st.fracbits))

\* C22: decompress reduces the dot product by a plain arithmetic right shift,
\* filtered = sum >> fracbits with no rounding term, and returns
\* input + filtered.
C22_PlainShift ==
    ring.kind = "stage" /\ ring.n > 0 =>
        ring.out[1] = ring.input[1] + ShiftedSum(ring.before)

\* The step coefficient i (1-based) of the stage st receives from an input:
\* adaptcoeffs[ap - order + i] * sign as an i16.
CoeffStep(st, input, i) ==
    AsI16(At(st.historybuffer, st.adapt_pos - st.order + i - 1)
          * apesign(input))

\* C23: every coefficient update of decompress saturates to the signed 16-bit
\* range: a coefficient at 32767 given a positive step stays 32767, one at
\* -32768 given a negative step stays -32768.
C23_AdaptSaturates ==
    ring.kind = "stage" /\ ring.n > 0 =>
        \A i \in 1..ring.st.order :
            ring.st.coeffs[i]
                = ClampI16(ring.before.coeffs[i]
                           + CoeffStep(ring.before, ring.input[1], i))

\* The position, in the buffer without end, of the cursor of the last call.
RefPos == ring.ref.buf_pos - 1

\* C24: decode_stereo filters channel 0 (Y) before channel 1 (X): X's
\* filter-B input is channel 0's filter_a of this pair, Y's is channel 1's
\* filter_a of the pair before; buf_pos advances once per pair; and
\* left = decoded_x - decoded_y / 2, right = left + decoded_y.
C24_YBeforeX ==
    ring.kind = "stereo" /\ ring.n > 0 =>
        /\ ring.st.filter_b[2] = ring.st.filter_a[1]
        /\ ring.st.filter_b[1] = ring.before.filter_a[2]
        /\ At(ring.ref.buf, RefPos + XDELAYB)
             = ring.st.filter_a[1] - ((ring.before.filter_b[2] * 31) \div 32)
        /\ At(ring.ref.buf, RefPos + YDELAYB)
             = ring.before.filter_a[2]
               - ((ring.before.filter_b[1] * 31) \div 32)
        /\ ring.st.buf_pos = (ring.before.buf_pos + 1) % HISTORY_SIZE
        /\ ring.ref.buf_pos = ring.n
        /\ ring.out[1] = ring.st.filter_a[2] - TruncDiv(ring.st.filter_a[1], 2)
        /\ ring.out[2] = ring.out[1] + ring.st.filter_a[1]

\* A pair after which each channel's filter_a differs from the one before and
\* from the other channel's, so that the order of the two channels shows.
C24_Witness ==
    /\ ring.kind = "stereo" /\ ring.n > 1
    /\ ring.st.filter_a[1] # ring.before.filter_a[1]
    /\ ring.st.filter_a[2] # ring.before.filter_a[2]
    /\ ring.st.filter_a[1] # ring.before.filter_a[2]
    /\ ring.st.filter_a[1] % 2 # 0 /\ ring.st.filter_a[1] < 0

\* The eight ring offsets with the number of taps read at each.
RingOffsets ==
    << [top |-> YDELAYA, taps |-> 4], [top |-> YDELAYB, taps |-> 5],
       [top |-> XDELAYA, taps |-> 4], [top |-> XDELAYB, taps |-> 5],
       [top |-> YADAPTCOEFFSA, taps |-> 4],
       [top |-> XADAPTCOEFFSA, taps |-> 4],
       [top |-> YADAPTCOEFFSB, taps |-> 5],
       [top |-> XADAPTCOEFFSB, taps |-> 5] >>

\* The indices buf_pos + offset - j of the taps of one ring offset.
TapWindow(bp, w) == { bp + w.top - j : j \in 0..(w.taps - 1) }

\* C25: after any number of decode_mono or decode_stereo calls buf_pos is in
\* [0, 512), every index read or written at the eight ring offsets is in
\* [0, 562), and the tap windows of the eight offsets do not overlap.
C25_RingInBounds ==
    ring.kind \in {"mono", "stereo"} =>
        /\ ring.st.buf_pos \in 0..(HISTORY_SIZE - 1)
        /\ Len(ring.st.buf) = HISTORY_SIZE + PREDICTOR_SIZE
        /\ \A a \in 1..Len(RingOffsets) :
            /\ \A idx \in TapWindow(ring.st.buf_pos, RingOffsets[a]) :
                 idx \in 0..(Len(ring.st.buf) - 1)
            /\ \A b \in 1..Len(RingOffsets) :
                 a # b => TapWindow(ring.st.buf_pos, RingOffsets[a])
                          \cap TapWindow(ring.st.buf_pos, RingOffsets[b]) = {}

\* The call made with the cursor on the last position before the wrap, whose
\* topmost tap is the last entry of the buffer.
C25_Witness ==
    /\ ring.kind \in {"mono", "stereo"} /\ ring.n > 0
    /\ ring.before.buf_pos = HISTORY_SIZE - 1
    /\ ring.before.buf_pos + YDELAYA = Len(ring.before.buf) - 1
    /\ ring.st.buf_pos = 0

\* C28: for a stage of order > 0, after every decompress call
\* adapt_pos = delay_pos - order and
\* 2 * order <= delay_pos < 2 * order + HISTORY_SIZE, the indices used are in
\* the buffer, and the outputs are those of the same stage on a history
\* buffer without end that never wraps.
C28_StageWrapTransparent ==
    ring.kind = "stage" =>
        /\ ring.st.order > 0
        /\ ring.st.adapt_pos = ring.st.delay_pos - ring.st.order
        /\ ring.st.delay_pos >= 2 * ring.st.order
        /\ ring.st.delay_pos < 2 * ring.st.order + HISTORY_SIZE
        /\ ring.st.adapt_pos - ring.st.order >= 0
        /\ ring.st.adapt_pos - 8 >= 0
        /\ ring.st.delay_pos < Len(ring.st.historybuffer)
        /\ ring.out = ring.refout
        /\ ring.st.coeffs = ring.ref.coeffs
        /\ ring.st.avg = ring.ref.avg

\* The call after a wrap, the filter contributing to its output.
C28_Witness ==
    /\ ring.kind = "stage" /\ ring.n > HISTORY_SIZE
    /\ ring.before.delay_pos = 2 * ring.st.order
    /\ ring.ref.delay_pos > 2 * ring.st.order + HISTORY_SIZE
    /\ ring.out[1] # ring.input[1]

\* C29: the predictor's wrap (buf[512..562) copied to buf[0..50), the rest
\* zeroed, buf_pos = 0) is transparent: decode_mono and decode_stereo return
\* what the same predictor returns on a zero-initialised buffer without end
\* whose cursor never wraps.
C29_PredictorWrapTransparent ==
    ring.kind \in {"mono", "stereo"} =>
        /\ ring.out = ring.refout
        /\ ring.st.last_a = ring.ref.last_a
        /\ ring.st.filter_a = ring.ref.filter_a
        /\ ring.st.coeffs_a = ring.ref.coeffs_a
        /\ ring.st.coeffs_b = ring.ref.coeffs_b

\* A call after a wrap whose output is not its input: the history carried
\* over the wrap has been read.
C29_Witness ==
    /\ ring.kind \in {"mono", "stereo"} /\ ring.n > HISTORY_SIZE + 1
    /\ ring.ref.buf_pos > HISTORY_SIZE + 1
    /\ ring.st.buf_pos = ring.ref.buf_pos - HISTORY_SIZE
    /\ ring.out[1] # ring.input[1]
    /\ ring.free > 0
====
